---- MODULE Spec2Model ----
(***************************************************************************)
(* Model of the Sottaku remote-lookup integration of the Yomitan fork:     *)
(* SottakuIntegration (ext/js/background/sottaku-integration.js), the      *)
(* SottakuClient gateway it drives and the language helpers it imports.    *)
(*                                                                         *)
(* Strings whose content the code inspects (lookup text, error messages)   *)
(* are sequences of one-character strings, so trim, toLowerCase, includes  *)
(* and length are computed.  An optional number (null / undefined / NaN)   *)
(* is the empty set, a present number n is {n}.                            *)
(***************************************************************************)
EXTENDS Integers, Sequences, FiniteSets, TLC

VARIABLES
    options,                    \* this._options (NoOptions = null)
    client,                     \* this._client: the gateway's mutable configuration
    translator,                 \* does this._translator offer getDeinflectionTextVariants
    supportedLanguages,         \* this._supportedLanguages
    supportedLanguagesPromise,  \* this._supportedLanguagesPromise: "null" or "pending"
    call,                       \* the findTerms invocation in flight or just finished
    network,                    \* requests handed to fetch() and not yet answered
    history,                    \* requests that findTerms invocation has issued, in order
    harness                     \* input and output of a function applied on its own

vars == <<options, client, translator, supportedLanguages, supportedLanguagesPromise,
          call, network, history, harness>>

----------------------------------------------------------------------------
(* Strings *)

IsSpace(c) == c = " "

RECURSIVE TrimStart(_)
TrimStart(s) == IF s # <<>> /\ IsSpace(Head(s)) THEN TrimStart(Tail(s)) ELSE s

RECURSIVE TrimEnd(_)
TrimEnd(s) == IF s # <<>> /\ IsSpace(s[Len(s)]) THEN TrimEnd(SubSeq(s, 1, Len(s) - 1)) ELSE s

\* String.prototype.trim
Trim(s) == TrimEnd(TrimStart(s))

UpperCaseLetters ==
    <<"A","B","C","D","E","F","G","H","I","J","K","L","M",
      "N","O","P","Q","R","S","T","U","V","W","X","Y","Z">>

LowerCaseLetters ==
    <<"a","b","c","d","e","f","g","h","i","j","k","l","m",
      "n","o","p","q","r","s","t","u","v","w","x","y","z">>

ToLowerCaseChar(c) ==
    IF \E i \in 1..Len(UpperCaseLetters) : UpperCaseLetters[i] = c
    THEN LowerCaseLetters[CHOOSE i \in 1..Len(UpperCaseLetters) : UpperCaseLetters[i] = c]
    ELSE c

\* String.prototype.toLowerCase
ToLowerCase(s) == [i \in 1..Len(s) |-> ToLowerCaseChar(s[i])]

\* String.prototype.includes
Includes(s, sub) ==
    \E i \in 0..(Len(s) - Len(sub)) : SubSeq(s, i + 1, i + Len(sub)) = sub

Max(a, b) == IF a >= b THEN a ELSE b

Min(a, b) == IF a <= b THEN a ELSE b

\* Number.isFinite of an optional number
IsFinite(n) == n # {}

\* the value of a present optional number
ValueOf(n) == CHOOSE v \in n : TRUE

----------------------------------------------------------------------------
(* Characters of lookup text: a space, a Latin letter, a character of the *)
(* Japanese ranges and a character of the Hangul ranges.                  *)

JapaneseChar == "J"

HangulChar == "K"

Chars == {" ", "a", JapaneseChar, HangulChar}

\* JAPANESE_CHAR_PATTERN.test
JAPANESE_CHAR_PATTERN(s) == \E i \in 1..Len(s) : s[i] = JapaneseChar

\* HANGUL_CHAR_PATTERN.test
HANGUL_CHAR_PATTERN(s) == \E i \in 1..Len(s) : s[i] = HangulChar

----------------------------------------------------------------------------
(* sottaku-languages.js *)

SOTTAKU_SUPPORTED_LANGUAGES == <<"ja", "ko">>

\* trim of a language code; codes are atoms, " ko " is the padded form of "ko"
TrimCode(l) == IF l = " ko " THEN "ko" ELSE IF l = " " THEN "" ELSE l

Contains(seq, x) == \E i \in 1..Len(seq) : seq[i] = x

\* the loop shared by normalizeSupportedLanguagesList and
\* _normalizeSupportedLanguagesResponse: trim, drop empty, drop seen
RECURSIVE TrimDedup(_, _)
TrimDedup(source, acc) ==
    IF source = <<>> THEN acc
    ELSE LET trimmed == TrimCode(Head(source))
         IN  IF trimmed = "" \/ Contains(acc, trimmed)
             THEN TrimDedup(Tail(source), acc)
             ELSE TrimDedup(Tail(source), Append(acc, trimmed))

normalizeSupportedLanguagesList(supported) ==
    LET normalized == TrimDedup(supported, <<>>)
    IN  IF Len(normalized) > 0 THEN normalized ELSE SOTTAKU_SUPPORTED_LANGUAGES

\* addLanguage applied to each element of values in turn
RECURSIVE AddLanguages(_, _, _)
AddLanguages(values, normalized, normalizedSupported) ==
    IF values = <<>> THEN normalized
    ELSE LET iso == TrimCode(Head(values))
         IN  IF iso = "" \/ Contains(normalized, iso) \/ ~Contains(normalizedSupported, iso)
             THEN AddLanguages(Tail(values), normalized, normalizedSupported)
             ELSE AddLanguages(Tail(values), Append(normalized, iso), normalizedSupported)

\* normalizeSottakuLanguages without the seeding from the supported list
normalizeSottakuLanguagesNoSeed(preferredLanguages, defaultLanguage, supported) ==
    LET normalizedSupported == normalizeSupportedLanguagesList(supported)
        fromPreferred == AddLanguages(preferredLanguages, <<>>, normalizedSupported)
    IN  IF Len(fromPreferred) = 0
        THEN AddLanguages(<<defaultLanguage>>, fromPreferred, normalizedSupported)
        ELSE fromPreferred

normalizeSottakuLanguages(preferredLanguages, defaultLanguage, supported) ==
    LET normalizedSupported == normalizeSupportedLanguagesList(supported)
        fromPreferred == AddLanguages(preferredLanguages, <<>>, normalizedSupported)
        fromDefault == IF Len(fromPreferred) = 0
                       THEN AddLanguages(<<defaultLanguage>>, fromPreferred, normalizedSupported)
                       ELSE fromPreferred
    IN  IF Len(fromDefault) = 0
        THEN AddLanguages(normalizedSupported, fromDefault, normalizedSupported)
        ELSE fromDefault

----------------------------------------------------------------------------
(* sottaku-client.js: the typed operations' handling of a decoded response *)

RequestFailedMessage ==
    <<"R","e","q","u","e","s","t"," ","f","a","i","l","e","d">>

\* the decoded body: null ({}) when response.json() throws or decodes null
DecodedJson(response) == IF response.decodes THEN response.json ELSE {}

\* _request treating a body that does not decode as a failure
gatewayRequestStrictBody(response) ==
    LET json == DecodedJson(response)
        body == ValueOf(json)
        fromBody == IF json # {}
                    THEN IF body.error # <<>> THEN body.error ELSE body.message
                    ELSE <<>>
        message == IF fromBody # <<>> THEN fromBody ELSE response.statusText
    IN  IF ~response.ok \/ json = {} \/ (json # {} /\ body.success = {FALSE})
        THEN [outcome |-> "threw",
              error |-> [name |-> "Error",
                         message |-> IF message # <<>> THEN message
                                     ELSE RequestFailedMessage]]
        ELSE [outcome |-> "returned",
              value |-> IF json # {} /\ body.data # {} THEN body.data ELSE json]

\* _request from the response of fetch on: the decoded body, the test of
\* response.ok and json.success, the message of the error, the value returned
\* (json.data when the body has a data field, else the body)
gatewayRequest(response) ==
    LET json == DecodedJson(response)
        body == ValueOf(json)
        fromBody == IF json # {}
                    THEN IF body.error # <<>> THEN body.error ELSE body.message
                    ELSE <<>>
        message == IF fromBody # <<>> THEN fromBody ELSE response.statusText
    IN  IF ~response.ok \/ (json # {} /\ body.success = {FALSE})
        THEN [outcome |-> "threw",
              error |-> [name |-> "Error",
                         message |-> IF message # <<>> THEN message
                                     ELSE RequestFailedMessage]]
        ELSE [outcome |-> "returned",
              value |-> IF json # {} /\ body.data # {} THEN body.data ELSE json]

\* SottakuClient.scan with the length 0 when the server sends none
ScanReturnNoDefault(data, text) ==
    [results |-> IF data.results # {} THEN ValueOf(data.results) ELSE <<>>,
     originalTextLength |-> IF IsFinite(data.original_text_length)
                            THEN ValueOf(data.original_text_length)
                            ELSE 0]

\* SottakuClient.scan, after _request has returned `data`: data.results is {}
\* when missing or not an array, data.original_text_length is {} when not a
\* finite number
ScanReturn(data, text) ==
    [results |-> IF data.results # {} THEN ValueOf(data.results) ELSE <<>>,
     originalTextLength |-> IF IsFinite(data.original_text_length)
                            THEN ValueOf(data.original_text_length)
                            ELSE Max(0, Len(text))]

\* SottakuClient.getFlashcardMembership, after _request has returned `data`:
\* the ids whose exists flag is true
FlashcardMembershipReturn(data) ==
    {ValueOf(data.question_ids[i]) :
        i \in {j \in 1..Min(Len(data.exists), Len(data.question_ids)) :
                  data.exists[j] /\ IsFinite(data.question_ids[j])}}

----------------------------------------------------------------------------
(* sottaku-integration.js: the functions without suspension points *)

DefaultMaxResults == 32

\* Math.max(1, general.maxResults || 32)
ResolveMaxResults(maxResults) ==
    Max(1, IF maxResults # 0 THEN maxResults ELSE DefaultMaxResults)

\* detectLanguageFromText with the Japanese pattern tested first
detectLanguageJapaneseFirst(text) ==
    LET trimmed == Trim(text)
    IN  IF JAPANESE_CHAR_PATTERN(trimmed) THEN {"ja"}
        ELSE IF HANGUL_CHAR_PATTERN(trimmed) THEN {"ko"}
        ELSE {}

detectLanguageFromText(text) ==
    LET trimmed == Trim(text)
    IN  IF HANGUL_CHAR_PATTERN(trimmed) THEN {"ko"}
        ELSE IF JAPANESE_CHAR_PATTERN(trimmed) THEN {"ja"}
        ELSE {}

\* _resolveLanguages normalizing against the static list whatever the cache holds
resolveLanguagesStaticList(text, sottakuOptions, defaultLanguage, cachedSupported) ==
    LET preferredLanguages == normalizeSottakuLanguages(
            sottakuOptions.preferredLanguages, defaultLanguage,
            SOTTAKU_SUPPORTED_LANGUAGES)
        detected == detectLanguageFromText(text)
    IN  CASE sottakuOptions.languageMode = "ja" -> <<"ja">>
          [] sottakuOptions.languageMode = "ko" -> <<"ko">>
          [] sottakuOptions.languageMode = "mixed" -> preferredLanguages
          [] OTHER ->
                IF detected # {} THEN <<ValueOf(detected)>>
                ELSE IF Len(preferredLanguages) > 0 THEN <<preferredLanguages[1]>>
                ELSE IF defaultLanguage # "" THEN <<defaultLanguage>>
                ELSE <<"ja">>

\* _resolveLanguages returning the preferred list as configured in mixed mode
resolveLanguagesMixedAsConfigured(text, sottakuOptions, defaultLanguage, cachedSupported) ==
    LET supported == IF Len(cachedSupported) > 0 THEN cachedSupported
                     ELSE SOTTAKU_SUPPORTED_LANGUAGES
        preferredLanguages == normalizeSottakuLanguages(
            sottakuOptions.preferredLanguages, defaultLanguage, supported)
        detected == detectLanguageFromText(text)
    IN  CASE sottakuOptions.languageMode = "ja" -> <<"ja">>
          [] sottakuOptions.languageMode = "ko" -> <<"ko">>
          [] sottakuOptions.languageMode = "mixed" -> sottakuOptions.preferredLanguages
          [] OTHER ->
                IF detected # {} THEN <<ValueOf(detected)>>
                ELSE IF Len(preferredLanguages) > 0 THEN <<preferredLanguages[1]>>
                ELSE IF defaultLanguage # "" THEN <<defaultLanguage>>
                ELSE <<"ja">>

resolveLanguages(text, sottakuOptions, defaultLanguage, cachedSupported) ==
    LET supported == IF Len(cachedSupported) > 0 THEN cachedSupported
                     ELSE SOTTAKU_SUPPORTED_LANGUAGES
        preferredLanguages == normalizeSottakuLanguages(
            sottakuOptions.preferredLanguages, defaultLanguage, supported)
        detected == detectLanguageFromText(text)
    IN  CASE sottakuOptions.languageMode = "ja" -> <<"ja">>
          [] sottakuOptions.languageMode = "ko" -> <<"ko">>
          [] sottakuOptions.languageMode = "mixed" -> preferredLanguages
          [] OTHER ->
                IF detected # {} THEN <<ValueOf(detected)>>
                ELSE IF Len(preferredLanguages) > 0 THEN <<preferredLanguages[1]>>
                ELSE IF defaultLanguage # "" THEN <<defaultLanguage>>
                ELSE <<"ja">>

\* a || b on strings: the empty string is falsy
OrElse(a, b) == IF a # <<>> THEN a ELSE b

\* a ?? b on optional numbers
Coalesce(a, b) == IF a # {} THEN a ELSE b

DefaultOrigin == "https://sottaku.app"

\* _getOrigin: the origin of an absolute URL, the default origin when the
\* value does not parse as one
getOrigin(value) ==
    IF value = "https://sottaku.app/api/v1" THEN "https://sottaku.app"
    ELSE IF value = "https://staging.sottaku.app/api/v1" THEN "https://staging.sottaku.app"
    ELSE DefaultOrigin

\* the text of a string literal: one character per element
ContextPrefix == <<"C","o","n","t","e","x","t",":"," ">>

TranslationPrefix == <<"T","r","a","n","s","l","a","t","i","o","n",":"," ">>

UsagePrefix == <<"U","s","a","g","e",":"," ">>

NoDefinitionLine ==
    <<"N","o"," ","S","o","t","t","a","k","u"," ","d","e","f","i","n","i","t","i","o","n",
      " ","a","v","a","i","l","a","b","l","e"," ","y","e","t",".">>

\* _createGlossaryEntries without the placeholder line
createGlossaryEntriesNoPlaceholder(translation, sentence, sentenceTranslation, usageNotes) ==
    (IF translation # <<>> THEN <<translation>> ELSE <<>>)
        \o (IF sentence # <<>> THEN <<ContextPrefix \o sentence>> ELSE <<>>)
        \o (IF sentenceTranslation # <<>>
            THEN <<TranslationPrefix \o sentenceTranslation>> ELSE <<>>)
        \o (IF usageNotes # <<>> THEN <<UsagePrefix \o usageNotes>> ELSE <<>>)

\* _createGlossaryEntries
createGlossaryEntries(translation, sentence, sentenceTranslation, usageNotes) ==
    LET entries ==
            (IF translation # <<>> THEN <<translation>> ELSE <<>>)
                \o (IF sentence # <<>> THEN <<ContextPrefix \o sentence>> ELSE <<>>)
                \o (IF sentenceTranslation # <<>>
                    THEN <<TranslationPrefix \o sentenceTranslation>> ELSE <<>>)
                \o (IF usageNotes # <<>> THEN <<UsagePrefix \o usageNotes>> ELSE <<>>)
    IN  IF Len(entries) = 0 THEN <<NoDefinitionLine>> ELSE entries

\* Array.prototype.join('') of a list of strings
RECURSIVE Join(_)
Join(tokens) == IF tokens = <<>> THEN <<>> ELSE Head(tokens) \o Join(Tail(tokens))

\* an audio file the service names by an absolute URL of its own
AbsoluteAudioUrl == "https://cdn.sottaku.app/a.mp3"

\* _resolveUrl: null ({}) without a value, else the href of new URL(value,
\* base): an absolute value stands alone, any other is resolved against base
resolveUrl(value, base) ==
    IF value = "" THEN {}
    ELSE IF value = AbsoluteAudioUrl THEN {<<value>>}
    ELSE {<<base, value>>}

\* a raw scan result with the headword fields given and no definition,
\* sentence or audio
RawResult(id, kanji_representation, reading, match_length, in_flashcards) ==
    [id |-> id, kanji_representation |-> kanji_representation, reading |-> reading,
     match_length |-> match_length, in_flashcards |-> in_flashcards,
     word_translation |-> <<>>, english_word |-> <<>>,
     cloze_sentence_tokens |-> {}, cloze_sentence |-> <<>>,
     english_sentence |-> <<>>, usage_notes |-> <<>>,
     word_audio_file |-> "", sentence_audio_file |-> ""]

\* _createEntry resolving the audio files against the origin of the client's
\* base URL
createEntryClientOrigin(result, info, language, apiOrigin, query, index, sourceText, matchLengthOverride) ==
    LET questionId == Coalesce(result.id, info.id)
        term == OrElse(info.kanji_representation, OrElse(result.kanji_representation, query))
        reading == OrElse(info.reading, OrElse(result.reading, term))
        matchLength == Coalesce(result.match_length,
                                Coalesce(info.match_length, matchLengthOverride))
        translation == OrElse(info.word_translation,
                           OrElse(info.english_word,
                               OrElse(result.word_translation, result.english_word)))
        sentence == IF info.cloze_sentence_tokens # {}
                       /\ Len(ValueOf(info.cloze_sentence_tokens)) > 0
                    THEN Join(ValueOf(info.cloze_sentence_tokens))
                    ELSE info.cloze_sentence
        sentenceTranslation == info.english_sentence
        usageNotes == info.usage_notes
        resolvedSourceText == OrElse(sourceText, query)
        metadata == [questionId |-> questionId,
                     language |-> language,
                     inFlashcards |-> result.in_flashcards,
                     audio |-> [word |-> resolveUrl(info.word_audio_file, getOrigin(client.apiBaseUrl)),
                                sentence |-> resolveUrl(info.sentence_audio_file, getOrigin(client.apiBaseUrl))],
                     matchLength |-> matchLength,
                     translation |-> translation,
                     sentence |-> sentence,
                     sentenceTranslation |-> sentenceTranslation,
                     usageNotes |-> usageNotes,
                     reading |-> reading,
                     term |-> term]
    IN  [score |-> Max(0, 100 - index),
         frequencyOrder |-> index,
         sourceTermExactMatchCount |-> IF query # <<>> /\ term # <<>> /\ query = term
                                       THEN 1 ELSE 0,
         matchPrimaryReading |-> (query = reading),
         maxOriginalTextLength |-> Max(Max(Len(query), Len(term)),
                                       Max(Len(reading), Len(resolvedSourceText))),
         headwords |-> <<[term |-> OrElse(term, OrElse(reading, query)),
                          reading |-> reading,
                          originalText |-> resolvedSourceText,
                          transformedText |-> query,
                          deinflectedText |-> OrElse(term, query)]>>,
         definitions |-> <<[id |-> IF IsFinite(questionId) THEN ValueOf(questionId)
                                   ELSE index,
                            score |-> Max(0, 100 - index),
                            frequencyOrder |-> index,
                            entries |-> createGlossaryEntries(
                                            translation, sentence,
                                            sentenceTranslation, usageNotes)]>>,
         sottaku |-> metadata]

\* _createEntry with the rank index as the score
createEntryScoreByRank(result, info, language, apiOrigin, query, index, sourceText, matchLengthOverride) ==
    LET questionId == Coalesce(result.id, info.id)
        term == OrElse(info.kanji_representation, OrElse(result.kanji_representation, query))
        reading == OrElse(info.reading, OrElse(result.reading, term))
        matchLength == Coalesce(result.match_length,
                                Coalesce(info.match_length, matchLengthOverride))
        translation == OrElse(info.word_translation,
                           OrElse(info.english_word,
                               OrElse(result.word_translation, result.english_word)))
        sentence == IF info.cloze_sentence_tokens # {}
                       /\ Len(ValueOf(info.cloze_sentence_tokens)) > 0
                    THEN Join(ValueOf(info.cloze_sentence_tokens))
                    ELSE info.cloze_sentence
        sentenceTranslation == info.english_sentence
        usageNotes == info.usage_notes
        resolvedSourceText == OrElse(sourceText, query)
        metadata == [questionId |-> questionId,
                     language |-> language,
                     inFlashcards |-> result.in_flashcards,
                     audio |-> [word |-> resolveUrl(info.word_audio_file, apiOrigin),
                                sentence |-> resolveUrl(info.sentence_audio_file, apiOrigin)],
                     matchLength |-> matchLength,
                     translation |-> translation,
                     sentence |-> sentence,
                     sentenceTranslation |-> sentenceTranslation,
                     usageNotes |-> usageNotes,
                     reading |-> reading,
                     term |-> term]
    IN  [score |-> index,
         frequencyOrder |-> index,
         sourceTermExactMatchCount |-> IF query # <<>> /\ term # <<>> /\ query = term
                                       THEN 1 ELSE 0,
         matchPrimaryReading |-> (query = reading),
         maxOriginalTextLength |-> Max(Max(Len(query), Len(term)),
                                       Max(Len(reading), Len(resolvedSourceText))),
         headwords |-> <<[term |-> OrElse(term, OrElse(reading, query)),
                          reading |-> reading,
                          originalText |-> resolvedSourceText,
                          transformedText |-> query,
                          deinflectedText |-> OrElse(term, query)]>>,
         definitions |-> <<[id |-> IF IsFinite(questionId) THEN ValueOf(questionId)
                                   ELSE index,
                            score |-> index,
                            frequencyOrder |-> index,
                            entries |-> createGlossaryEntries(
                                            translation, sentence,
                                            sentenceTranslation, usageNotes)]>>,
         sottaku |-> metadata]

createEntry(result, info, language, apiOrigin, query, index, sourceText, matchLengthOverride) ==
    LET questionId == Coalesce(result.id, info.id)
        term == OrElse(info.kanji_representation, OrElse(result.kanji_representation, query))
        reading == OrElse(info.reading, OrElse(result.reading, term))
        matchLength == Coalesce(result.match_length,
                                Coalesce(info.match_length, matchLengthOverride))
        translation == OrElse(info.word_translation,
                           OrElse(info.english_word,
                               OrElse(result.word_translation, result.english_word)))
        sentence == IF info.cloze_sentence_tokens # {}
                       /\ Len(ValueOf(info.cloze_sentence_tokens)) > 0
                    THEN Join(ValueOf(info.cloze_sentence_tokens))
                    ELSE info.cloze_sentence
        sentenceTranslation == info.english_sentence
        usageNotes == info.usage_notes
        resolvedSourceText == OrElse(sourceText, query)
        metadata == [questionId |-> questionId,
                     language |-> language,
                     inFlashcards |-> result.in_flashcards,
                     audio |-> [word |-> resolveUrl(info.word_audio_file, apiOrigin),
                                sentence |-> resolveUrl(info.sentence_audio_file, apiOrigin)],
                     matchLength |-> matchLength,
                     translation |-> translation,
                     sentence |-> sentence,
                     sentenceTranslation |-> sentenceTranslation,
                     usageNotes |-> usageNotes,
                     reading |-> reading,
                     term |-> term]
    IN  [score |-> Max(0, 100 - index),
         frequencyOrder |-> index,
         sourceTermExactMatchCount |-> IF query # <<>> /\ term # <<>> /\ query = term
                                       THEN 1 ELSE 0,
         matchPrimaryReading |-> (query = reading),
         maxOriginalTextLength |-> Max(Max(Len(query), Len(term)),
                                       Max(Len(reading), Len(resolvedSourceText))),
         headwords |-> <<[term |-> OrElse(term, OrElse(reading, query)),
                          reading |-> reading,
                          originalText |-> resolvedSourceText,
                          transformedText |-> query,
                          deinflectedText |-> OrElse(term, query)]>>,
         definitions |-> <<[id |-> IF IsFinite(questionId) THEN ValueOf(questionId)
                                   ELSE index,
                            score |-> Max(0, 100 - index),
                            frequencyOrder |-> index,
                            entries |-> createGlossaryEntries(
                                            translation, sentence,
                                            sentenceTranslation, usageNotes)]>>,
         sottaku |-> metadata]

\* InterleaveRound without the break at line 264
RECURSIVE InterleaveRoundNoBreak(_, _, _, _, _, _)
InterleaveRoundNoBreak(languageResults, i, index, maxResults, dictionaryEntries, added) ==
    IF i > Len(languageResults)
    THEN [dictionaryEntries |-> dictionaryEntries, added |-> added]
    ELSE LET entries == languageResults[i].entries
         IN  IF index < Len(entries)
             THEN InterleaveRoundNoBreak(languageResults, i + 1, index, maxResults,
                                         Append(dictionaryEntries, entries[index + 1]), TRUE)
             ELSE InterleaveRoundNoBreak(languageResults, i + 1, index, maxResults,
                                         dictionaryEntries, added)

\* one pass of the for loop of _interleaveLanguageEntries over the language
\* results from position i on, at rank `index`; stops at the break
RECURSIVE InterleaveRound(_, _, _, _, _, _)
InterleaveRound(languageResults, i, index, maxResults, dictionaryEntries, added) ==
    IF i > Len(languageResults)
    THEN [dictionaryEntries |-> dictionaryEntries, added |-> added]
    ELSE LET entries == languageResults[i].entries
         IN  IF index < Len(entries)
             THEN LET pushed == Append(dictionaryEntries, entries[index + 1])
                  IN  IF Len(pushed) >= maxResults
                      THEN [dictionaryEntries |-> pushed, added |-> TRUE]
                      ELSE InterleaveRound(languageResults, i + 1, index, maxResults,
                                           pushed, TRUE)
             ELSE InterleaveRound(languageResults, i + 1, index, maxResults,
                                  dictionaryEntries, added)

\* the while loop of _interleaveLanguageEntries
RECURSIVE InterleaveLoop(_, _, _, _, _)
InterleaveLoop(languageResults, index, maxResults, dictionaryEntries, added) ==
    IF Len(dictionaryEntries) < maxResults /\ added
    THEN LET round == InterleaveRound(languageResults, 1, index, maxResults,
                                      dictionaryEntries, FALSE)
         IN  InterleaveLoop(languageResults, index + 1, maxResults,
                            round.dictionaryEntries, round.added)
    ELSE dictionaryEntries

\* all entries of the language results, language after language
RECURSIVE Concatenated(_)
Concatenated(languageResults) ==
    IF languageResults = <<>> THEN <<>>
    ELSE Head(languageResults).entries \o Concatenated(Tail(languageResults))

\* interleaveLanguageEntries exhausting each language before the next
interleaveLanguageMajor(languageResults, maxResults) ==
    SubSeq(Concatenated(languageResults), 1,
           Min(maxResults, Len(Concatenated(languageResults))))

interleaveLanguageEntries(languageResults, maxResults) ==
    InterleaveLoop(languageResults, 0, maxResults, <<>>, TRUE)

\* the larger of the elements of a set of naturals, 0 when it is empty
MaxOf(S) == IF S = {} THEN 0 ELSE CHOOSE m \in S : \A n \in S : n <= m

\* the second loop of _resolveOriginalTextLength: an entry contributes its
\* match length when that is truthy, else its headword's term length
EntryLength(entry) ==
    IF IsFinite(entry.sottaku.matchLength) /\ ValueOf(entry.sottaku.matchLength) # 0
    THEN ValueOf(entry.sottaku.matchLength)
    ELSE Len(entry.headwords[1].term)

resolveOriginalTextLength(languageResults, dictionaryEntries, query) ==
    LET fromLanguages == MaxOf({0} \cup
            {ValueOf(languageResults[i].originalTextLength) :
                i \in {j \in 1..Len(languageResults) :
                          IsFinite(languageResults[j].originalTextLength)}})
        fromEntries == MaxOf({0} \cup
            {EntryLength(dictionaryEntries[i]) : i \in 1..Len(dictionaryEntries)})
    IN  IF fromLanguages > 0 THEN fromLanguages
        ELSE IF fromEntries > 0 THEN fromEntries
        ELSE Len(query)

\* buildQueryVariants taking the last pair that spans the text, not the first
buildQueryVariantsLastMatch(text, provided) ==
    LET normalizedText == Trim(text)
        pairs == IF provided = {} THEN <<>> ELSE ValueOf(provided)
        full == {i \in 1..Len(pairs) : Len(Trim(pairs[i].originalText)) = Len(normalizedText)}
    IN  IF full # {}
        THEN LET fullLengthVariant == pairs[CHOOSE i \in full : \A j \in full : i >= j]
             IN  <<[query |-> Trim(fullLengthVariant.deinflectedText),
                    sourceText |-> Trim(fullLengthVariant.originalText),
                    originalTextLength |-> {}]>>
        ELSE <<[query |-> normalizedText,
                sourceText |-> normalizedText,
                originalTextLength |-> {}]>>

\* _buildQueryVariants once the provider has answered: `provided` is {} when
\* the provider is absent or threw, else {the list of pairs it returned}
buildQueryVariants(text, provided) ==
    LET normalizedText == Trim(text)
        pairs == IF provided = {} THEN <<>> ELSE ValueOf(provided)
        full == {i \in 1..Len(pairs) : Len(Trim(pairs[i].originalText)) = Len(normalizedText)}
    IN  IF full # {}
        THEN LET fullLengthVariant == pairs[CHOOSE i \in full : \A j \in full : i <= j]
             IN  <<[query |-> Trim(fullLengthVariant.deinflectedText),
                    sourceText |-> Trim(fullLengthVariant.originalText),
                    originalTextLength |-> {}]>>
        ELSE <<[query |-> normalizedText,
                sourceText |-> normalizedText,
                originalTextLength |-> {}]>>

\* the catch block of _fetchLanguageEntries: the error the language fetch
\* throws for the error e the scan threw
UpgradeRequiredMessage ==
    <<"U","p","g","r","a","d","e"," ","r","e","q","u","i","r","e","d",":"," ",
      "h","t","t","p","s",":","/","/","s","o","t","t","a","k","u",".","a","p","p",
      "/","u","p","g","r","a","d","e">>

ExtensionError(message) == [name |-> "ExtensionError", message |-> message]

IsPaywallMessage(message) ==
    LET lowered == ToLowerCase(message)
    IN  \/ Includes(lowered, <<"4","0","2">>)
        \/ Includes(lowered, <<"p","r","o"," ","s","u","b","s","c","r","i","p","t","i","o","n">>)
        \/ Includes(lowered, <<"u","p","g","r","a","d","e">>)

\* ScanFailure matching the phrases without lowering the message
ScanFailureCaseSensitive(e) ==
    IF \/ Includes(e.message, <<"4","0","2">>)
       \/ Includes(e.message, <<"p","r","o"," ","s","u","b","s","c","r","i","p","t","i","o","n">>)
       \/ Includes(e.message, <<"u","p","g","r","a","d","e">>)
    THEN ExtensionError(UpgradeRequiredMessage) ELSE e

ScanFailure(e) ==
    IF IsPaywallMessage(e.message) THEN ExtensionError(UpgradeRequiredMessage) ELSE e

----------------------------------------------------------------------------
(* State of one SottakuIntegration instance *)

NoOptions == [null |-> TRUE]

DefaultApiBaseUrl == "https://sottaku.app/api/v1"

DefaultCookieDomain == "https://sottaku.app"

\* new SottakuClient()
NewClient ==
    [apiBaseUrl |-> DefaultApiBaseUrl, authToken |-> "", cookieDomain |-> DefaultCookieDomain]

\* SottakuClient.setConfig
setConfig(c, o) ==
    [apiBaseUrl |-> IF o.apiBaseUrl # "" THEN o.apiBaseUrl ELSE c.apiBaseUrl,
     authToken |-> o.authToken,
     cookieDomain |-> IF o.cookieDomain # "" THEN o.cookieDomain ELSE c.cookieDomain]

\* no findTerms invocation in flight
IdleCall ==
    [pc |-> "idle",
     text |-> <<>>,
     opts |-> NoOptions,            \* {sottaku, general} read at line 60
     query |-> <<>>,
     languages |-> <<>>,
     maxResults |-> 0,
     apiOrigin |-> DefaultOrigin,
     languageIndex |-> 0,           \* position of the for loop of findTerms
     variants |-> <<>>,             \* resolvedVariants
     variantIndex |-> 0,            \* position of the for loop over the variants
     fallbackResult |-> {},
     variantResults |-> <<>>,       \* record: what the fetch of each variant returned
     normalizedQuery |-> <<>>,
     normalizedSource |-> <<>>,
     limitedResults |-> <<>>,
     scanOriginalLength |-> 0,
     languageResults |-> <<>>,
     scanError |-> {},              \* record: the error a scan request failed with
     ensured |-> "none",            \* record: how the languages request just awaited settled
     invoked |-> NewClient,         \* record: the gateway's settings at invocation
     outcome |-> "none",            \* "returned" or "threw" once pc = "done"
     result |-> {},
     error |-> {}]

\* a request as SottakuClient._request hands it to fetch()
Request(kind, by, c, language, text, maxResults, ids) ==
    [kind |-> kind, by |-> by, baseUrl |-> c.apiBaseUrl, token |-> c.authToken,
     language |-> language, text |-> text, maxResults |-> maxResults, ids |-> ids]

ScanRequest(c, text, language, maxResults) ==
    Request("scan", "findTerms", c, language, text, maxResults, <<>>)

MembershipRequest(c, ids, language) ==
    Request("membership", "findTerms", c, language, <<>>, 0, ids)

SupportedLanguagesRequest(c, by) ==
    Request("languages", by, c, "", <<>>, 0, <<>>)

\* the part of the state a findTerms invocation changes while it runs
Running(c, n, h) == [call |-> c, network |-> n, history |-> h]

\* fetch(): the request is outstanding from now on
Issue(s, request) ==
    [s EXCEPT !.network = @ \cup {request}, !.history = Append(@, request)]

\* findTerms returns `value`
Return(s, value) ==
    [s EXCEPT !.call = [IdleCall EXCEPT !.pc = "done", !.outcome = "returned",
                            !.result = {value},
                            !.text = s.call.text, !.query = s.call.query,
                            !.languages = s.call.languages,
                            !.maxResults = s.call.maxResults,
                            !.variants = s.call.variants,
                            !.variantResults = s.call.variantResults,
                            !.scanError = s.call.scanError,
                            !.ensured = s.call.ensured,
                            !.invoked = s.call.invoked,
                            !.limitedResults = s.call.limitedResults,
                            !.languageResults = s.call.languageResults]]

\* findTerms throws `e`
Throw(s, e) ==
    [s EXCEPT !.call = [IdleCall EXCEPT !.pc = "done", !.outcome = "threw",
                            !.error = {e},
                            !.text = s.call.text, !.query = s.call.query,
                            !.languages = s.call.languages,
                            !.maxResults = s.call.maxResults,
                            !.variants = s.call.variants,
                            !.variantResults = s.call.variantResults,
                            !.scanError = s.call.scanError,
                            !.ensured = s.call.ensured,
                            !.invoked = s.call.invoked,
                            !.limitedResults = s.call.limitedResults,
                            !.languageResults = s.call.languageResults]]

----------------------------------------------------------------------------
(* findTerms between two suspension points.  Each operator runs the code  *)
(* from one point of the source to the next await on an external answer   *)
(* (fetch or the deinflection provider) or to the end of findTerms.       *)

RECURSIVE StartLanguage(_, _, _, _)
RECURSIVE fetchLanguageEntriesWithVariants(_, _, _, _)
RECURSIVE fetchLanguageEntries(_, _, _, _)
RECURSIVE VariantFetched(_, _, _, _)
RECURSIVE LanguageFetched(_, _, _, _)

\* lines 88-90
Finish(s) ==
    LET dictionaryEntries ==
            interleaveLanguageEntries(s.call.languageResults, s.call.maxResults)
    IN  Return(s, [dictionaryEntries |-> dictionaryEntries,
                   originalTextLength |->
                       resolveOriginalTextLength(s.call.languageResults,
                                                 dictionaryEntries, s.call.query)])

\* lines 78-84: the loop of findTerms reaches language number i and calls
\* _buildQueryVariants, which suspends on the provider when there is one
StartLanguage(s, c, tr, i) ==
    IF i > Len(s.call.languages) THEN Finish(s)
    ELSE LET s1 == [s EXCEPT !.call.languageIndex = i]
         IN  IF tr
             THEN [s1 EXCEPT !.call.pc = "awaitVariants"]
             ELSE fetchLanguageEntriesWithVariants(
                      s1, c, tr, buildQueryVariants(s.call.query, {}))

\* lines 143-147
fetchLanguageEntriesWithVariants(s, c, tr, variants) ==
    LET resolvedVariants ==
            IF Len(variants) > 0 THEN variants
            ELSE <<[query |-> <<>>, sourceText |-> <<>>, originalTextLength |-> {0}]>>
    IN  fetchLanguageEntries(
            [s EXCEPT !.call.variants = resolvedVariants,
                      !.call.fallbackResult = {},
                      !.call.variantResults = <<>>],
            c, tr, 1)

\* _fetchLanguageEntries scanning whatever the query is, the empty one too
fetchLanguageEntriesScansEmpty(s, c, tr, v) ==
    LET variant == s.call.variants[v]
        language == s.call.languages[s.call.languageIndex]
        normalizedQuery == Trim(variant.query)
        normalizedSource == Trim(OrElse(variant.sourceText, normalizedQuery))
        s1 == [s EXCEPT !.call.variantIndex = v,
                        !.call.normalizedQuery = normalizedQuery,
                        !.call.normalizedSource = normalizedSource]
    IN  Issue([s1 EXCEPT !.call.pc = "awaitScan"],
              ScanRequest(c, normalizedQuery, language, s.call.maxResults))

\* lines 174-192: _fetchLanguageEntries for variant number v, up to the scan
fetchLanguageEntries(s, c, tr, v) ==
    LET variant == s.call.variants[v]
        language == s.call.languages[s.call.languageIndex]
        normalizedQuery == Trim(variant.query)
        normalizedSource == Trim(OrElse(variant.sourceText, normalizedQuery))
        s1 == [s EXCEPT !.call.variantIndex = v,
                        !.call.normalizedQuery = normalizedQuery,
                        !.call.normalizedSource = normalizedSource]
    IN  IF normalizedQuery = <<>>
        THEN VariantFetched(s1, c, tr,
                 [language |-> language, entries |-> <<>>,
                  originalTextLength |-> {Len(normalizedSource)}])
        ELSE Issue([s1 EXCEPT !.call.pc = "awaitScan"],
                   ScanRequest(c, normalizedQuery, language, s.call.maxResults))

\* VariantFetched keeping the latest empty result as the fallback
VariantFetchedLatestFallback(s, c, tr, languageResult) ==
    LET s1 == [s EXCEPT !.call.variantResults =
                            Append(@, [variant |-> s.call.variantIndex,
                                       result |-> languageResult])]
    IN  IF Len(languageResult.entries) > 0
        THEN LanguageFetched(s1, c, tr, languageResult)
        ELSE IF s.call.variantIndex < Len(s.call.variants)
        THEN fetchLanguageEntries([s1 EXCEPT !.call.fallbackResult = {languageResult}],
                                  c, tr, s.call.variantIndex + 1)
        ELSE LanguageFetched(s1, c, tr, languageResult)

\* lines 156-167: a variant's fetch has returned languageResult
VariantFetched(s, c, tr, languageResult) ==
    LET s1 == [s EXCEPT !.call.variantResults =
                            Append(@, [variant |-> s.call.variantIndex,
                                       result |-> languageResult])]
        fallbackResult == IF s.call.fallbackResult = {} THEN {languageResult}
                          ELSE s.call.fallbackResult
    IN  IF Len(languageResult.entries) > 0
        THEN LanguageFetched(s1, c, tr, languageResult)
        ELSE IF s.call.variantIndex < Len(s.call.variants)
        THEN fetchLanguageEntries([s1 EXCEPT !.call.fallbackResult = fallbackResult],
                                  c, tr, s.call.variantIndex + 1)
        ELSE LanguageFetched(s1, c, tr, ValueOf(fallbackResult))

\* lines 85-86: a language's fetch has returned; on to the next language
LanguageFetched(s, c, tr, languageResult) ==
    StartLanguage([s EXCEPT !.call.languageResults = Append(@, languageResult)],
                  c, tr, s.call.languageIndex + 1)

\* lines 67-74: findTerms after `await this._ensureSupportedLanguages()`
AfterEnsure(s, c, tr, supported) ==
    LET query == Trim(s.call.text)
        o == s.call.opts
    IN  IF query = <<>>
        THEN Return(s, [dictionaryEntries |-> <<>>, originalTextLength |-> 0])
        ELSE StartLanguage(
                 [s EXCEPT !.call.query = query,
                           !.call.opts = NoOptions,
                           !.call.languages =
                               resolveLanguages(query, o.sottaku, o.general.language, supported),
                           !.call.maxResults = ResolveMaxResults(o.general.maxResults),
                           !.call.apiOrigin = getOrigin(o.sottaku.apiBaseUrl)],
                 c, tr, 1)

\* lines 208-210: the positive integer ids of the results
RECURSIVE QuestionIds(_)
QuestionIds(results) ==
    IF results = <<>> THEN <<>>
    ELSE LET id == Head(results).id
         IN  IF IsFinite(id) /\ ValueOf(id) > 0
             THEN <<ValueOf(id)>> \o QuestionIds(Tail(results))
             ELSE QuestionIds(Tail(results))

\* BuildEntries with in_flashcards of every record set to its membership
BuildEntriesOverwrite(s, c, tr, inFlashcards) ==
    LET language == s.call.languages[s.call.languageIndex]
        originalTextLength == s.call.variants[s.call.variantIndex].originalTextLength
        marked(result) ==
            [result EXCEPT !.in_flashcards =
                               IsFinite(result.id) /\ ValueOf(result.id) \in inFlashcards]
        limitedResults == [i \in 1..Len(s.call.limitedResults) |->
                              marked(s.call.limitedResults[i])]
        entries == [i \in 1..Len(limitedResults) |->
                       createEntry(limitedResults[i], limitedResults[i],
                                   language, s.call.apiOrigin,
                                   s.call.normalizedQuery, i - 1,
                                   s.call.normalizedSource, originalTextLength)]
    IN  VariantFetched([s EXCEPT !.call.limitedResults = limitedResults], c, tr,
            [language |-> language,
             entries |-> entries,
             originalTextLength |-> IF IsFinite(originalTextLength)
                                    THEN originalTextLength
                                    ELSE {s.call.scanOriginalLength}])

\* lines 220-245: the entries of the language result, with the membership
\* set; the records of limitedResults are stamped in place
BuildEntries(s, c, tr, inFlashcards) ==
    LET language == s.call.languages[s.call.languageIndex]
        originalTextLength == s.call.variants[s.call.variantIndex].originalTextLength
        marked(result) ==
            IF IsFinite(result.id) /\ ValueOf(result.id) \in inFlashcards
            THEN [result EXCEPT !.in_flashcards = TRUE]
            ELSE result
        limitedResults == [i \in 1..Len(s.call.limitedResults) |->
                              marked(s.call.limitedResults[i])]
        entries == [i \in 1..Len(limitedResults) |->
                       createEntry(limitedResults[i], limitedResults[i],
                                   language, s.call.apiOrigin,
                                   s.call.normalizedQuery, i - 1,
                                   s.call.normalizedSource, originalTextLength)]
    IN  VariantFetched([s EXCEPT !.call.limitedResults = limitedResults], c, tr,
            [language |-> language,
             entries |-> entries,
             originalTextLength |-> IF IsFinite(originalTextLength)
                                    THEN originalTextLength
                                    ELSE {s.call.scanOriginalLength}])

\* ScanResolved with the membership request started and not awaited
ScanResolvedNoAwait(s, c, tr, data) ==
    LET scanResult == ScanReturn(data, s.call.normalizedQuery)
        limitedResults == SubSeq(scanResult.results, 1,
                                 Min(Len(scanResult.results), Max(1, s.call.maxResults)))
        questionIds == QuestionIds(limitedResults)
        s1 == [s EXCEPT !.call.limitedResults = limitedResults,
                        !.call.scanOriginalLength = scanResult.originalTextLength]
    IN  IF Len(questionIds) > 0 /\ c.authToken # ""
        THEN BuildEntries(Issue(s1, MembershipRequest(c, questionIds,
                                        s.call.languages[s.call.languageIndex])),
                          c, tr, {})
        ELSE BuildEntries(s1, c, tr, {})

\* ScanResolved collecting the ids of all results, not of the capped ones
ScanResolvedAllIds(s, c, tr, data) ==
    LET scanResult == ScanReturn(data, s.call.normalizedQuery)
        limitedResults == SubSeq(scanResult.results, 1,
                                 Min(Len(scanResult.results), Max(1, s.call.maxResults)))
        questionIds == QuestionIds(scanResult.results)
        s1 == [s EXCEPT !.call.limitedResults = limitedResults,
                        !.call.scanOriginalLength = scanResult.originalTextLength]
    IN  IF Len(questionIds) > 0 /\ c.authToken # ""
        THEN Issue([s1 EXCEPT !.call.pc = "awaitMembership"],
                   MembershipRequest(c, questionIds,
                                     s.call.languages[s.call.languageIndex]))
        ELSE BuildEntries(s1, c, tr, {})

\* lines 193-218: the scan has returned `data`
ScanResolved(s, c, tr, data) ==
    LET scanResult == ScanReturn(data, s.call.normalizedQuery)
        limitedResults == SubSeq(scanResult.results, 1,
                                 Min(Len(scanResult.results), Max(1, s.call.maxResults)))
        questionIds == QuestionIds(limitedResults)
        s1 == [s EXCEPT !.call.limitedResults = limitedResults,
                        !.call.scanOriginalLength = scanResult.originalTextLength]
    IN  IF Len(questionIds) > 0 /\ c.authToken # ""
        THEN Issue([s1 EXCEPT !.call.pc = "awaitMembership"],
                   MembershipRequest(c, questionIds,
                                     s.call.languages[s.call.languageIndex]))
        ELSE BuildEntries(s1, c, tr, {})

----------------------------------------------------------------------------
(* The operations of the instance and the answers of its collaborators *)

NotConfiguredMessage ==
    <<"S","o","t","t","a","k","u"," ","o","p","t","i","o","n","s"," ",
      "n","o","t"," ","c","o","n","f","i","g","u","r","e","d">>

SignInMessage ==
    <<"S","i","g","n"," ","i","n"," ","t","o"," ","S","o","t","t","a","k","u"," ",
      "f","r","o","m"," ","t","h","e"," ","s","e","t","t","i","n","g","s"," ",
      "p","a","g","e"," ","t","o"," ","e","n","a","b","l","e"," ",
      "r","e","m","o","t","e"," ","l","o","o","k","u","p","s",".">>

\* the part of `running` this step leaves in the variables
Resume(s) ==
    /\ call' = s.call
    /\ network' = s.network
    /\ history' = s.history

\* _normalizeSupportedLanguagesResponse
normalizeSupportedLanguagesResponse(response) ==
    TrimDedup(response.languages \o response.supported_languages
                  \o response.admin_only_languages, <<>>)

\* configure(options) starting a supported-languages request also while one
\* is pending
ConfigureAlwaysRequests(o) ==
    LET c == setConfig(client, o.sottaku)
    IN  /\ options' = o
        /\ client' = c
        /\ IF o.sottaku.authToken # ""
           THEN IF c.authToken = ""
                THEN /\ supportedLanguages' = SOTTAKU_SUPPORTED_LANGUAGES
                     /\ UNCHANGED <<supportedLanguagesPromise, network>>
                ELSE /\ supportedLanguagesPromise' = "pending"
                     /\ network' = network \cup {SupportedLanguagesRequest(c, "configure")}
                     /\ UNCHANGED supportedLanguages
           ELSE /\ supportedLanguages' = SOTTAKU_SUPPORTED_LANGUAGES
                /\ UNCHANGED <<supportedLanguagesPromise, network>>
        /\ call' = IF call.pc = "done" THEN IdleCall ELSE call
        /\ history' = IF call.pc = "done" THEN <<>> ELSE history
        /\ UNCHANGED <<translator, harness>>

\* configure(options), with the synchronous part of the
\* _ensureSupportedLanguages() it starts and does not await; the record of a
\* findTerms that has finished is dropped when the next operation starts
Configure(o) ==
    LET c == setConfig(client, o.sottaku)
    IN  /\ options' = o
        /\ client' = c
        /\ IF o.sottaku.authToken # ""
           THEN IF c.authToken = ""
                THEN /\ supportedLanguages' = SOTTAKU_SUPPORTED_LANGUAGES
                     /\ UNCHANGED <<supportedLanguagesPromise, network>>
                ELSE IF supportedLanguagesPromise = "pending"
                THEN UNCHANGED <<supportedLanguages, supportedLanguagesPromise, network>>
                ELSE /\ supportedLanguagesPromise' = "pending"
                     /\ network' = network \cup {SupportedLanguagesRequest(c, "configure")}
                     /\ UNCHANGED supportedLanguages
           ELSE /\ supportedLanguages' = SOTTAKU_SUPPORTED_LANGUAGES
                /\ UNCHANGED <<supportedLanguagesPromise, network>>
        /\ call' = IF call.pc = "done" THEN IdleCall ELSE call
        /\ history' = IF call.pc = "done" THEN <<>> ELSE history
        /\ UNCHANGED <<translator, harness>>

\* configure(options) called while no lookup is suspended
ConfigureBetweenLookups(o) ==
    /\ call.pc \in {"idle", "done"}
    /\ Configure(o)

\* Precheck with the token test ahead of the enabled test
PrecheckTokenFirst(o) ==
    IF o = NoOptions THEN "notConfigured"
    ELSE IF o.sottaku.authToken = "" THEN "signIn"
    ELSE IF ~o.sottaku.enabled THEN "disabled"
    ELSE "proceed"

\* Precheck without the token test
PrecheckNoTokenTest(o) ==
    IF o = NoOptions THEN "notConfigured"
    ELSE IF ~o.sottaku.enabled THEN "disabled"
    ELSE "proceed"

\* lines 57-64: what findTerms decides from this._options before any await
Precheck(o) ==
    IF o = NoOptions THEN "notConfigured"
    ELSE IF ~o.sottaku.enabled THEN "disabled"
    ELSE IF o.sottaku.authToken = "" THEN "signIn"
    ELSE "proceed"

\* findTerms(text) from its invocation to its first suspension (lines 56-66
\* and the synchronous part of _ensureSupportedLanguages)
FindTerms(text) ==
    LET s == Running([IdleCall EXCEPT !.pc = "running", !.text = text, !.opts = options,
                                      !.invoked = client],
                     network, <<>>)
        decision == Precheck(options)
    IN  /\ call.pc \in {"idle", "done"}
        /\ IF decision = "notConfigured"
           THEN /\ Resume(Throw(s, ExtensionError(NotConfiguredMessage)))
                /\ UNCHANGED <<supportedLanguages, supportedLanguagesPromise>>
           ELSE IF decision = "disabled"
           THEN /\ Resume(Return(s, [dictionaryEntries |-> <<>>,
                                     originalTextLength |-> Len(text)]))
                /\ UNCHANGED <<supportedLanguages, supportedLanguagesPromise>>
           ELSE IF decision = "signIn"
           THEN /\ Resume(Throw(s, ExtensionError(SignInMessage)))
                /\ UNCHANGED <<supportedLanguages, supportedLanguagesPromise>>
           ELSE IF client.authToken = ""
           THEN /\ supportedLanguages' = SOTTAKU_SUPPORTED_LANGUAGES
                /\ Resume(AfterEnsure(s, client, translator, SOTTAKU_SUPPORTED_LANGUAGES))
                /\ UNCHANGED supportedLanguagesPromise
           ELSE IF supportedLanguagesPromise = "pending"
           THEN /\ Resume([s EXCEPT !.call.pc = "awaitLanguages"])
                /\ UNCHANGED <<supportedLanguages, supportedLanguagesPromise>>
           ELSE /\ Resume(Issue([s EXCEPT !.call.pc = "awaitLanguages"],
                                SupportedLanguagesRequest(client, "findTerms")))
                /\ supportedLanguagesPromise' = "pending"
                /\ UNCHANGED supportedLanguages
        /\ UNCHANGED <<options, client, translator, harness>>

\* the supported-languages request settles: the then / catch / finally
\* callbacks of lines 501-513, then the findTerms waiting on the promise
SupportedLanguagesSettled(request, supported, settled) ==
    /\ request \in network
    /\ request.kind = "languages"
    /\ supportedLanguages' = supported
    /\ supportedLanguagesPromise' = "null"
    /\ IF call.pc = "awaitLanguages"
       THEN Resume(AfterEnsure(Running([call EXCEPT !.ensured = settled],
                                       network \ {request}, history),
                               client, translator, supported))
       ELSE /\ network' = network \ {request}
            /\ UNCHANGED <<call, history>>
    /\ UNCHANGED <<options, client, translator, harness>>

\* getSupportedLanguages() resolves with `response`
SupportedLanguagesResolve(response) ==
    \E request \in network :
        LET normalized == normalizeSupportedLanguagesResponse(response)
        IN  SupportedLanguagesSettled(request,
                IF Len(normalized) > 0 THEN normalized ELSE SOTTAKU_SUPPORTED_LANGUAGES,
                "resolved")

\* SupportedLanguagesReject with the failure passed on to the awaiting findTerms
SupportedLanguagesRejectPropagates ==
    \E request \in network :
        /\ request.kind = "languages"
        /\ supportedLanguagesPromise' = "null"
        /\ IF call.pc = "awaitLanguages"
           THEN Resume(Throw(Running([call EXCEPT !.ensured = "rejected"],
                                     network \ {request}, history),
                             [name |-> "Error", message |-> <<"N","o","t"," ","F","o","u","n","d">>]))
           ELSE /\ network' = network \ {request}
                /\ UNCHANGED <<call, history>>
        /\ UNCHANGED <<options, client, translator, supportedLanguages, harness>>

\* getSupportedLanguages() rejects
SupportedLanguagesReject ==
    \E request \in network :
        SupportedLanguagesSettled(request,
            IF Len(supportedLanguages) > 0 THEN supportedLanguages
            ELSE SOTTAKU_SUPPORTED_LANGUAGES,
            "rejected")

\* the deinflection provider answers _buildQueryVariants: `provided` is {} when
\* it threw, else {its list of pairs}
ProviderRespond(provided) ==
    /\ call.pc = "awaitVariants"
    /\ Resume(fetchLanguageEntriesWithVariants(
                  Running([call EXCEPT !.ensured = "none", !.limitedResults = <<>>],
                          network, history),
                  client, translator,
                  buildQueryVariants(call.query, provided)))
    /\ UNCHANGED <<options, client, translator, supportedLanguages,
                   supportedLanguagesPromise, harness>>

\* the scan request is answered with success and the decoded body `data`
ScanResolve(data) ==
    /\ call.pc = "awaitScan"
    /\ \E request \in network :
        /\ request.kind = "scan"
        /\ Resume(ScanResolved(Running(call, network \ {request}, history),
                               client, translator, data))
    /\ UNCHANGED <<options, client, translator, supportedLanguages,
                   supportedLanguagesPromise, harness>>

\* ScanReject with the error swallowed: the language counts as empty
ScanRejectSwallowed(e) ==
    /\ call.pc = "awaitScan"
    /\ \E request \in network :
        /\ request.kind = "scan"
        /\ Resume(BuildEntries(Running([call EXCEPT !.scanError = {e}],
                                        network \ {request}, history),
                               client, translator, {}))
    /\ UNCHANGED <<options, client, translator, supportedLanguages,
                   supportedLanguagesPromise, harness>>

\* the scan request fails: _request throws e (lines 195-202)
ScanReject(e) ==
    /\ call.pc = "awaitScan"
    /\ \E request \in network :
        /\ request.kind = "scan"
        /\ Resume(Throw(Running([call EXCEPT !.scanError = {e}],
                                 network \ {request}, history),
                         ScanFailure(e)))
    /\ UNCHANGED <<options, client, translator, supportedLanguages,
                   supportedLanguagesPromise, harness>>

\* the membership request is answered with the decoded body `data`
MembershipResolve(data) ==
    /\ call.pc = "awaitMembership"
    /\ \E request \in network :
        /\ request.kind = "membership"
        /\ Resume(BuildEntries(Running(call, network \ {request}, history),
                               client, translator, FlashcardMembershipReturn(data)))
    /\ UNCHANGED <<options, client, translator, supportedLanguages,
                   supportedLanguagesPromise, harness>>

\* the membership request fails: the catch of lines 215-217
MembershipReject ==
    /\ call.pc = "awaitMembership"
    /\ \E request \in network :
        /\ request.kind = "membership"
        /\ Resume(BuildEntries(Running(call, network \ {request}, history),
                               client, translator, {}))
    /\ UNCHANGED <<options, client, translator, supportedLanguages,
                   supportedLanguagesPromise, harness>>

----------------------------------------------------------------------------
(* The inputs the environment may supply *)

MaxScanResults == 2

\* the strings over `alphabet` of length at most n
Strings(alphabet, n) == UNION {[1..k -> alphabet] : k \in 0..n}

\* lookup texts: empty, blank, Latin, padded Japanese, Hangul with Japanese
Texts ==
    {<<>>, <<" ">>, <<"a">>, <<" ", JapaneseChar, " ">>, <<HangulChar, JapaneseChar>>}


Options(enabled, authToken, languageMode, preferredLanguages, language, maxResults) ==
    [sottaku |-> [enabled |-> enabled,
                  authToken |-> authToken,
                  apiBaseUrl |-> DefaultApiBaseUrl,
                  cookieDomain |-> DefaultCookieDomain,
                  languageMode |-> languageMode,
                  preferredLanguages |-> preferredLanguages],
     general |-> [language |-> language, maxResults |-> maxResults]]

\* profile options: disabled with and without a token, enabled without a
\* token, and signed in under each language mode and result cap
AllOptions ==
    {Options(FALSE, "", "auto", <<>>, "ja", 0),
     Options(FALSE, "tokA", "auto", <<>>, "ja", 0),
     Options(TRUE, "", "mixed", <<"ko", "ja">>, "ja", 2),
     Options(TRUE, "tokA", "auto", <<>>, "en", 0),
     Options(TRUE, "tokA", "mixed", <<"ko", "ja">>, "ja", 1),
     Options(TRUE, "tokA", "mixed", <<>>, "en", 3),
     Options(TRUE, "tokA", "ja", <<"ko">>, "ko", 2),
     Options(TRUE, "tokA", "ko", <<>>, "ja", 1)}

\* what the deinflection provider may return for the trimmed text: pairs
\* spanning the whole text (padded or not) or its first character only,
\* deinflected to the text itself, to a one-character lemma or to nothing
ProviderPairs(text) ==
    [originalText : {text, SubSeq(text, 1, Min(1, Len(text))), <<" ">> \o text},
     deinflectedText : {text, <<JapaneseChar>>, <<>>}]

\* the provider throws, or returns no pair, one pair, or a pair after a pair
\* for the first character
ProviderAnswers(text) ==
    {{}} \cup {{<<>>}} \cup {{<<p>>} : p \in ProviderPairs(text)}
         \cup {{<<[originalText |-> SubSeq(text, 1, Min(1, Len(text))),
                   deinflectedText |-> <<JapaneseChar>>], p>>} : p \in ProviderPairs(text)}

\* raw scan results as the service sends them
RawResults ==
    {RawResult({1}, <<JapaneseChar, JapaneseChar>>, <<>>, {}, FALSE),
     RawResult({}, <<>>, <<"a">>, {1}, FALSE),
     RawResult({2}, <<JapaneseChar>>, <<>>, {}, TRUE)}

ServerLength == 4

ScanData ==
    [results : {{}} \cup {{r} : r \in Strings(RawResults, MaxScanResults)},
     original_text_length : {{}, {0}, {ServerLength}}]

\* the decoded bodies the membership endpoint may answer a request with
MembershipData(request) ==
    [exists : [1..Len(request.ids) -> BOOLEAN],
     question_ids : {[i \in 1..Len(request.ids) |-> {request.ids[i]}]}]

ErrorMessages ==
    {<<"H","T","T","P"," ","4","0","2">>,
     <<"P","r","o"," ","S","u","b","s","c","r","i","p","t","i","o","n"," ","o","n","l","y">>,
     <<"P","l","e","a","s","e"," ","U","P","G","R","A","D","E">>,
     <<"N","o","t"," ","F","o","u","n","d">>,
     <<"R","e","q","u","e","s","t"," ","f","a","i","l","e","d">>,
     <<"4","0"," ","2"," ","u","p","g","r","a","d">>}

\* the errors _request throws
GatewayErrors == {[name |-> "Error", message |-> m] : m \in ErrorMessages}

SupportedLanguagesResponses ==
    {[languages |-> <<"ja", "ko">>, supported_languages |-> <<>>,
      admin_only_languages |-> <<>>],
     [languages |-> <<>>, supported_languages |-> <<"ko">>,
      admin_only_languages |-> <<"en">>],
     [languages |-> <<>>, supported_languages |-> <<>>, admin_only_languages |-> <<>>]}

----------------------------------------------------------------------------
(* The instance as the extension's backend drives it, the profile options  *)
(* changing between lookups                                                *)

NoHarness == [op |-> "none"]

\* new SottakuIntegration(translator)
Constructed ==
    /\ options = NoOptions
    /\ client = NewClient
    /\ supportedLanguages = SOTTAKU_SUPPORTED_LANGUAGES
    /\ supportedLanguagesPromise = "null"
    /\ call = IdleCall
    /\ network = {}
    /\ history = <<>>

Init ==
    /\ Constructed
    /\ translator = TRUE
    /\ harness = NoHarness

Next ==
    \/ \E o \in AllOptions : ConfigureBetweenLookups(o)
    \/ \E text \in Texts : FindTerms(text)
    \/ \E response \in SupportedLanguagesResponses : SupportedLanguagesResolve(response)
    \/ SupportedLanguagesReject
    \/ \E provided \in ProviderAnswers(call.query) : ProviderRespond(provided)
    \/ \E data \in ScanData : ScanResolve(data)
    \/ \E e \in GatewayErrors : ScanReject(e)
    \/ \E request \in network : \E data \in MembershipData(request) : MembershipResolve(data)
    \/ MembershipReject

Spec == Init /\ [][Next]_vars

----------------------------------------------------------------------------
(* Properties of findTerms, checked under Spec *)

Finished == call.pc = "done"

Returned == Finished /\ call.outcome = "returned"

Threw == Finished /\ call.outcome = "threw"

TheResult == ValueOf(call.result)

SignedIn == options # NoOptions /\ options.sottaku.enabled /\ options.sottaku.authToken # ""

\* the entries all the language fetches of the call produced
RECURSIVE CountEntries(_)
CountEntries(languageResults) ==
    IF languageResults = <<>> THEN 0
    ELSE Len(Head(languageResults).entries) + CountEntries(Tail(languageResults))

\* C1: a configured, enabled, authenticated findTerms on text that is not
\* blank returns at most max(1, general.maxResults or 32) entries
C1_EntriesWithinCap ==
    (Returned /\ SignedIn /\ Trim(call.text) # <<>>) =>
        LET configured == options.general.maxResults
            cap == IF configured = 0 THEN 32 ELSE IF configured < 1 THEN 1 ELSE configured
        IN  Len(TheResult.dictionaryEntries) <= cap

\* two languages were fetched and together produced more entries than the cap
C1_Witness ==
    /\ Returned /\ SignedIn
    /\ Len(call.languageResults) = 2
    /\ CountEntries(call.languageResults) > options.general.maxResults
    /\ Len(TheResult.dictionaryEntries) = options.general.maxResults

\* the position of a language in the list of the call's target languages
Position(language) == CHOOSE i \in 1..Len(call.languages) : call.languages[i] = language

FetchRequests == {i \in 1..Len(history) : history[i].kind \in {"scan", "membership"}}

\* C3: the target languages are processed strictly in order and at most one
\* request of the call is outstanding: an outstanding request is the last one
\* issued, requests follow the order of the languages, and a language's
\* membership request follows its scan
C3_SequentialLanguages ==
    /\ Cardinality({r \in network : r.by = "findTerms"}) <= 1
    /\ \A r \in network : r.by = "findTerms" =>
           history # <<>> /\ history[Len(history)] = r
    /\ \A i, j \in FetchRequests : i < j =>
           Position(history[i].language) <= Position(history[j].language)
    /\ \A j \in FetchRequests : history[j].kind = "membership" =>
           /\ j - 1 \in FetchRequests
           /\ history[j - 1].kind = "scan"
           /\ history[j - 1].language = history[j].language

\* the scan of the second language is outstanding after the scan and the
\* membership request of the first
C3_Witness ==
    /\ call.pc = "awaitScan"
    /\ Len(call.languages) = 2
    /\ Len(history) = 4
    /\ history[3].kind = "membership"
    /\ history[3].language = call.languages[1]
    /\ history[4].language = call.languages[2]
    /\ history[4] \in network

\* C4: findTerms on empty or blank text, configured, enabled and with a
\* token, returns no entries and length 0 and has issued no request
C4_BlankTextNoRequest ==
    (Finished /\ SignedIn /\ Trim(call.text) = <<>>) =>
        /\ call.outcome = "returned"
        /\ TheResult = [dictionaryEntries |-> <<>>, originalTextLength |-> 0]
        /\ history = <<>>

\* C5: with sottaku.enabled false findTerms returns no entries and the length
\* of the untrimmed text, and has issued no request, token or not
C5_DisabledReturnsEmpty ==
    (Finished /\ options # NoOptions /\ ~options.sottaku.enabled) =>
        /\ call.outcome = "returned"
        /\ TheResult = [dictionaryEntries |-> <<>>, originalTextLength |-> Len(call.text)]
        /\ history = <<>>
        /\ \A r \in network : r.by # "findTerms"

\* a disabled lookup without a token on text that trimming would shorten
C5_Witness ==
    /\ Returned
    /\ options # NoOptions /\ ~options.sottaku.enabled /\ options.sottaku.authToken = ""
    /\ Len(call.text) > Len(Trim(call.text))
    /\ TheResult.originalTextLength = Len(call.text)

\* C6: enabled with an empty token, findTerms throws the sign-in error and
\* has issued no request; never configured, it throws the configuration error
C6_SignInRequired ==
    /\ (Finished /\ options # NoOptions /\ options.sottaku.enabled
            /\ options.sottaku.authToken = "") =>
           /\ call.outcome = "threw"
           /\ call.error = {[name |-> "ExtensionError", message |-> SignInMessage]}
           /\ history = <<>>
           /\ \A r \in network : r.by # "findTerms"
    /\ (Finished /\ options = NoOptions) =>
           /\ call.outcome = "threw"
           /\ call.error = {[name |-> "ExtensionError", message |-> NotConfiguredMessage]}
           /\ history = <<>>

\* an enabled lookup without a token on text that is not blank
C6_Witness ==
    /\ Threw
    /\ options # NoOptions /\ options.sottaku.enabled /\ options.sottaku.authToken = ""
    /\ Trim(call.text) # <<>>

\* C8: a language whose scans returned nothing for every variant reports the
\* length of its first variant's source text
C8_EmptyScanReportsSourceLength ==
    (Returned /\ call.languageResults # <<>>) =>
        LET last == call.languageResults[Len(call.languageResults)]
            first == call.variants[1]
        IN  (/\ Len(last.entries) = 0
             /\ Trim(first.sourceText) # <<>>
             /\ \A i \in 1..Len(call.variants) : Trim(call.variants[i].query) # <<>>
             /\ \A i \in 1..Len(call.variantResults) :
                    Len(call.variantResults[i].result.entries) = 0) =>
                last.originalTextLength = {Len(Trim(first.sourceText))}

\* two letters are the same up to case
SameLetter(a, b) ==
    \/ a = b
    \/ \E i \in 1..Len(UpperCaseLetters) :
           {a, b} = {UpperCaseLetters[i], LowerCaseLetters[i]}

\* the message contains the phrase, case ignored
MentionsPhrase(message, phrase) ==
    \E i \in 0..(Len(message) - Len(phrase)) :
        \A k \in 1..Len(phrase) : SameLetter(message[i + k], phrase[k])

MentionsPaywall(message) ==
    \/ MentionsPhrase(message, <<"4","0","2">>)
    \/ MentionsPhrase(message, <<"P","R","O"," ","S","U","B","S","C","R","I","P","T","I","O","N">>)
    \/ MentionsPhrase(message, <<"U","P","G","R","A","D","E">>)

\* C9: a failed scan surfaces as the 'Upgrade required' error exactly when the
\* gateway's message mentions 402, pro subscription or upgrade in any case,
\* and otherwise as the gateway's error itself
C9_PaywallTranslation ==
    (Finished /\ call.scanError # {}) =>
        LET e == ValueOf(call.scanError)
        IN  /\ call.outcome = "threw"
            /\ MentionsPaywall(e.message) =>
                   call.error = {[name |-> "ExtensionError",
                                  message |-> UpgradeRequiredMessage]}
            /\ ~MentionsPaywall(e.message) => call.error = {e}

\* the scan failed with a message that spells the phrase in capitals
C9_Witness ==
    /\ Threw
    /\ call.scanError = {[name |-> "Error",
                          message |-> <<"P","l","e","a","s","e"," ","U","P","G","R","A","D","E">>]}
    /\ call.error = {[name |-> "ExtensionError", message |-> UpgradeRequiredMessage]}

Scans == {i \in 1..Len(history) : history[i].kind = "scan"}

\* C10: when a language's scan fails the call fails: nothing is returned,
\* whatever the earlier languages fetched, and the failing scan is the last
\* request of the call: no language after the failing one is scanned
C10_ScanFailureAbortsCall ==
    (Finished /\ call.scanError # {}) =>
        /\ call.outcome = "threw"
        /\ call.result = {}
        /\ history # <<>>
        /\ history[Len(history)].kind = "scan"
        /\ Position(history[Len(history)].language) = Len(call.languageResults) + 1
        /\ \A i \in Scans :
               Position(history[i].language) <= Len(call.languageResults) + 1
        /\ network = {r \in network : r.by # "findTerms"}

\* the second of two languages failed after the first had produced entries
C10_Witness ==
    /\ Threw
    /\ call.scanError # {}
    /\ Len(call.languages) = 2
    /\ Len(call.languageResults) = 1
    /\ Len(call.languageResults[1].entries) > 0

----------------------------------------------------------------------------
(* _interleaveLanguageEntries applied on its own to language results of   *)
(* every shape                                                             *)

MaxLanguages == 3

MaxEntries == 3

MaxCap == 4

LanguageCodes == <<"ja", "ko", "en", "zh", "fr", "de">>

\* the result of a language fetch that produced n entries
LanguageResultOf(language, n) ==
    [language |-> language,
     entries |-> [i \in 1..n |->
                     createEntry(RawResult({i}, <<>>, <<>>, {}, FALSE),
                                 RawResult({i}, <<>>, <<>>, {}, FALSE),
                                 language, DefaultOrigin, <<JapaneseChar>>, i - 1,
                                 <<JapaneseChar>>, {})],
     originalTextLength |-> {1}]

\* the instance is not touched while a function is applied on its own
Untouched ==
    UNCHANGED <<options, client, translator, supportedLanguages,
                supportedLanguagesPromise, call, network, history>>

InitInterleave ==
    /\ Constructed
    /\ translator = TRUE
    /\ \E k \in 0..MaxLanguages : \E sizes \in [1..k -> 0..MaxEntries] :
       \E maxResults \in 1..MaxCap :
           harness = [op |-> "interleave",
                      languageResults |->
                          [i \in 1..k |-> LanguageResultOf(LanguageCodes[i], sizes[i])],
                      maxResults |-> maxResults,
                      out |-> {}]

\* this._interleaveLanguageEntries(languageResults, maxResults)
ApplyInterleave ==
    /\ harness.op = "interleave"
    /\ harness.out = {}
    /\ harness' = [harness EXCEPT !.out =
                       {interleaveLanguageEntries(harness.languageResults,
                                                  harness.maxResults)}]
    /\ Untouched

NextInterleave == ApplyInterleave

SpecInterleave == InitInterleave /\ [][NextInterleave]_vars

\* the places of all entries: <<rank index, position of the language>>
Places(languageResults) ==
    UNION {{<<k, i>> : k \in 0..(Len(languageResults[i].entries) - 1)} :
              i \in 1..Len(languageResults)}

\* place p comes before place q: lower rank, or same rank and earlier language
Before(p, q) == p[1] < q[1] \/ (p[1] = q[1] /\ p[2] < q[2])

\* the first n entries by rank index, then by position of the language
FirstByRank(languageResults, n) ==
    LET places == Places(languageResults)
        at(j) == CHOOSE p \in places :
                     Cardinality({q \in places : Before(q, p)}) = j - 1
    IN  [j \in 1..n |-> languageResults[at(j)[2]].entries[at(j)[1] + 1]]

\* C2: _interleaveLanguageEntries returns the first min(maxResults, total)
\* entries in the order of (rank index, position of the language)
C2_InterleaveByRank ==
    (harness.op = "interleave" /\ harness.out # {}) =>
        ValueOf(harness.out) =
            FirstByRank(harness.languageResults,
                        Min(harness.maxResults, CountEntries(harness.languageResults)))

\* A = [a0, a1, a2], B = [b0, b1], maxResults = 4 gives [a0, b0, a1, b1]
C2_Witness ==
    /\ harness.op = "interleave"
    /\ harness.maxResults = 4
    /\ Len(harness.languageResults) = 2
    /\ Len(harness.languageResults[1].entries) = 3
    /\ Len(harness.languageResults[2].entries) = 2
    /\ harness.out = {<<harness.languageResults[1].entries[1],
                        harness.languageResults[2].entries[1],
                        harness.languageResults[1].entries[2],
                        harness.languageResults[2].entries[2]>>}

----------------------------------------------------------------------------
(* _fetchLanguageEntriesWithVariants called with every list of variants,   *)
(* as the one language of a lookup that has reached line 79                *)

MaxVariants == 2

Variants ==
    [query : {<<>>, <<JapaneseChar>>, <<" ", JapaneseChar, JapaneseChar>>},
     sourceText : {<<>>, <<JapaneseChar, JapaneseChar>>},
     originalTextLength : {{}, {2}}]

VariantsOptions == Options(TRUE, "tokA", "ja", <<>>, "ja", 2)

\* the scan answers tried against each variant
VariantsScanData ==
    [results : {{r} : r \in Strings(RawResults, 1)},
     original_text_length : {{}, {0}}]

InitVariants ==
    /\ options = VariantsOptions
    /\ client = setConfig(NewClient, VariantsOptions.sottaku)
    /\ translator = TRUE
    /\ supportedLanguages = SOTTAKU_SUPPORTED_LANGUAGES
    /\ supportedLanguagesPromise = "null"
    /\ harness = NoHarness
    /\ \E variants \in Strings(Variants, MaxVariants) :
           LET s == fetchLanguageEntriesWithVariants(
                        Running([IdleCall EXCEPT
                                     !.pc = "running",
                                     !.text = <<JapaneseChar, JapaneseChar>>,
                                     !.query = <<JapaneseChar, JapaneseChar>>,
                                     !.languages = <<"ja">>,
                                     !.maxResults = 2,
                                     !.languageIndex = 1],
                                {}, <<>>),
                        client, translator, variants)
           IN  /\ call = s.call
               /\ network = s.network
               /\ history = s.history

NextVariants ==
    \/ \E data \in VariantsScanData : ScanResolve(data)
    \/ \E e \in GatewayErrors : ScanReject(e)
    \/ \E request \in network : \E data \in MembershipData(request) : MembershipResolve(data)
    \/ MembershipReject

SpecVariants == InitVariants /\ [][NextVariants]_vars

\* the variants whose fetch produced at least one entry
Productive == {i \in 1..Len(call.variantResults) :
                  Len(call.variantResults[i].result.entries) > 0}

\* C7: _fetchLanguageEntriesWithVariants returns the result of the first
\* variant, in list order, whose fetch yields an entry, and the result of the
\* first variant when none does
C7_FirstProductiveVariant ==
    Returned =>
        /\ Len(call.languageResults) = 1
        /\ \A i \in 1..Len(call.variantResults) : call.variantResults[i].variant = i
        /\ IF Productive # {}
           THEN /\ Productive = {Len(call.variantResults)}
                /\ call.languageResults[1] =
                       call.variantResults[Len(call.variantResults)].result
           ELSE /\ Len(call.variantResults) = Len(call.variants)
                /\ call.languageResults[1] = call.variantResults[1].result

\* two variants were scanned, neither produced an entry, and their results
\* differ
C7_Witness ==
    /\ Returned
    /\ Len(call.variantResults) = 2
    /\ Productive = {}
    /\ Cardinality(Scans) = 2
    /\ call.variantResults[1].result # call.variantResults[2].result
    /\ call.languageResults[1] = call.variantResults[1].result

----------------------------------------------------------------------------
(* The instance without a deinflection provider, configure() arriving at   *)
(* any moment, also while a lookup is suspended on a request               *)

StagingApiBaseUrl == "https://staging.sottaku.app/api/v1"

StagingCookieDomain == "https://staging.sottaku.app"

\* enabled options that differ in the gateway settings only
GatewayOptions(authToken, apiBaseUrl, cookieDomain) ==
    [Options(TRUE, authToken, "ja", <<>>, "ja", 1)
        EXCEPT !.sottaku.apiBaseUrl = apiBaseUrl,
               !.sottaku.cookieDomain = cookieDomain]

\* signed out or signed in with the endpoints left empty, or signed in as
\* another user against a staging deployment
ReconfigureOptions ==
    {GatewayOptions("", "", ""),
     GatewayOptions("tokA", "", ""),
     GatewayOptions("tokB", StagingApiBaseUrl, StagingCookieDomain)}

ReconfigureTexts == {<<JapaneseChar>>}

\* scan answers: one result without an id, or two results with ids of which
\* the cap keeps the first
ReconfigureScanData ==
    [results : {{<<r>>} : r \in {x \in RawResults : x.id = {}}}
                   \cup {{<<a, b>>} : a \in {x \in RawResults : x.id = {1}},
                                      b \in {x \in RawResults : x.id = {2}}},
     original_text_length : {{}}]

ReconfigureErrors == {[name |-> "Error", message |-> <<"N","o","t"," ","F","o","u","n","d">>]}

\* the service lists one more language, or answers with no list
ReconfigureResponses ==
    {r \in SupportedLanguagesResponses : r.languages = <<>>}

InitReconfigure ==
    /\ Constructed
    /\ translator = FALSE
    /\ harness = NoHarness

NextReconfigure ==
    \/ \E o \in ReconfigureOptions : Configure(o)
    \/ \E text \in ReconfigureTexts : FindTerms(text)
    \/ \E response \in ReconfigureResponses : SupportedLanguagesResolve(response)
    \/ SupportedLanguagesReject
    \/ \E data \in ReconfigureScanData : ScanResolve(data)
    \/ \E e \in ReconfigureErrors : ScanReject(e)
    \/ \E request \in network : \E data \in MembershipData(request) : MembershipResolve(data)
    \/ MembershipReject

SpecReconfigure == InitReconfigure /\ [][NextReconfigure]_vars

----------------------------------------------------------------------------
(* Properties of the membership enrichment *)

\* the language result the step has just added to the results of the call
AddedLanguageResult == call'.languageResults[Len(call'.languageResults)]

\* C11: when the membership request of a language fetch fails, the fetch does
\* not fail and every entry it produces has inFlashcards false, whatever raw
\* results the scan returned
C11_MembershipFailureLeavesUnsaved ==
    [][MembershipReject =>
          /\ call'.outcome # "threw"
          /\ Len(call'.languageResults) = Len(call.languageResults) + 1
          /\ \A i \in 1..Len(AddedLanguageResult.entries) :
                 ~AddedLanguageResult.entries[i].sottaku.inFlashcards]_vars

\* the raw result carries a positive integer id
HasPositiveId(result) == result.id # {} /\ ValueOf(result.id) > 0

\* the ids a membership request for the scan answer `data` has to carry
ExpectedIds(data, maxResults) ==
    LET results == IF data.results = {} THEN <<>> ELSE ValueOf(data.results)
        capped == SubSeq(results, 1, Min(Len(results), Max(1, maxResults)))
        withId == SelectSeq(capped, HasPositiveId)
    IN  [i \in 1..Len(withId) |-> ValueOf(withId[i].id)]

\* every membership request of the call directly follows the scan request of
\* its own language
MembershipFollowsScan ==
    \A i \in 1..Len(history) :
        history[i].kind = "membership" =>
            /\ i > 1
            /\ history[i - 1].kind = "scan"
            /\ history[i - 1].language = history[i].language

\* C12: a language fetch issues at most one membership request, only once its
\* scan has succeeded, carrying exactly the positive integer ids of the capped
\* scan results, and none when there is no such id or the client has no token
C12_OneMembershipRequestPerFetch ==
    [][/\ MembershipFollowsScan'
       /\ \A e \in GatewayErrors : ScanReject(e) => history' = history
       /\ \A data \in ScanData :
              ScanResolve(data) =>
                  LET ids == ExpectedIds(data, call.maxResults)
                  IN  IF Len(ids) > 0 /\ client.authToken # ""
                      THEN /\ Len(history') = Len(history) + 1
                           /\ history'[Len(history')].kind = "membership"
                           /\ history'[Len(history')].ids = ids
                           /\ history'[Len(history')].language =
                                  call.languages[call.languageIndex]
                           /\ history'[Len(history')] \in network'
                      ELSE \A i \in (Len(history) + 1)..Len(history') :
                               history'[i].kind # "membership"]_vars

\* the scan returned more results than the cap keeps and the membership
\* request asks for the id of the one kept
C12_Witness ==
    /\ call.pc = "awaitMembership"
    /\ Len(call.limitedResults) = 1
    /\ history[Len(history)].kind = "membership"
    /\ history[Len(history)].ids = <<1>>
    /\ history[Len(history)] \in network

----------------------------------------------------------------------------
(* Properties of the supported-language list *)

\* the supported-languages requests outstanding
LanguagesRequests(n) == {r \in n : r.kind = "languages"}

\* C13: the list is fetched once per token: with a list that a request of the
\* present token has delivered (a list other than the static default, no
\* request pending), no findTerms or configure that keeps the token issues
\* another supported-languages request
C13_FetchedOncePerToken ==
    [][(/\ supportedLanguages # SOTTAKU_SUPPORTED_LANGUAGES
        /\ supportedLanguagesPromise = "null"
        /\ client.authToken # ""
        /\ client'.authToken = client.authToken)
          => LanguagesRequests(network') \subseteq LanguagesRequests(network)]_vars

\* C14: while the configured token is empty the supported-language list is the
\* static default, also once a request started under an earlier token settles
C14_DefaultListWhileSignedOut ==
    (options # NoOptions /\ options.sottaku.authToken = "") =>
        supportedLanguages = SOTTAKU_SUPPORTED_LANGUAGES

\* C15: after a supported-languages request that failed, or that delivered no
\* usable code, the list is the static default whatever was cached before
C15_FallbackToDefaultList ==
    [][(\/ SupportedLanguagesReject
        \/ \E response \in SupportedLanguagesResponses :
               /\ normalizeSupportedLanguagesResponse(response) = <<>>
               /\ SupportedLanguagesResolve(response))
          => supportedLanguages' = SOTTAKU_SUPPORTED_LANGUAGES]_vars

\* C16: a failed supported-languages request does not make the findTerms that
\* awaits it fail: the list stays non-empty and the lookup goes on, to its
\* languages and the first of them when the text is not blank
C16_LanguagesFailureSwallowed ==
    [][(SupportedLanguagesReject /\ call.pc = "awaitLanguages") =>
          /\ call'.outcome # "threw"
          /\ Len(supportedLanguages') > 0
          /\ IF Trim(call.text) = <<>>
             THEN call'.pc = "done" /\ call'.outcome = "returned"
             ELSE /\ call'.pc = "awaitVariants"
                  /\ Len(call'.languages) > 0
                  /\ call'.languageIndex = 1]_vars

\* a lookup of text that is not blank has seen its supported-languages request
\* fail and waits for the variants of its first language
C16_Witness ==
    /\ call.ensured = "rejected"
    /\ call.pc = "awaitVariants"
    /\ call.languageIndex = 1
    /\ Len(supportedLanguages) > 0

----------------------------------------------------------------------------
(* Properties of the gateway settings, checked with configure() arriving   *)
(* at any moment                                                           *)

\* C17: every request a findTerms call issues carries the auth token and the
\* API base URL the gateway had when that call was invoked
C17_RequestsUseInvocationConfig ==
    \A i \in 1..Len(history) :
        /\ history[i].token = call.invoked.authToken
        /\ history[i].baseUrl = call.invoked.apiBaseUrl

\* C18: once configure(options) has returned, the gateway's base URL, token
\* and cookie domain are those of options.sottaku, empty strings included
C18_ConfigReplacedWholesale ==
    options # NoOptions =>
        client = [apiBaseUrl |-> options.sottaku.apiBaseUrl,
                  authToken |-> options.sottaku.authToken,
                  cookieDomain |-> options.sottaku.cookieDomain]

----------------------------------------------------------------------------
(* _buildQueryVariants called on every text, with and without a            *)
(* deinflection provider, the provider answering in every way              *)

MaxPairs == 2

\* texts as findTerms passes them, and padded ones
BuildTexts ==
    {<<JapaneseChar>>, <<JapaneseChar, JapaneseChar>>, <<" ", JapaneseChar, "a">>,
     <<" ">>}

\* the provider throws ({}) or returns a list of pairs
BuildAnswers(text) == {{}} \cup {{pairs} : pairs \in Strings(ProviderPairs(text), MaxPairs)}

InitBuild ==
    /\ Constructed
    /\ translator \in BOOLEAN
    /\ \E text \in BuildTexts :
           harness = [op |-> "buildQueryVariants", pc |-> "start", text |-> text,
                      calls |-> 0, provided |-> {}, variants |-> <<>>]

\* lines 100-114: there is a provider and getDeinflectionTextVariants is called
CallProvider ==
    /\ harness.op = "buildQueryVariants"
    /\ harness.pc = "start"
    /\ translator
    /\ harness' = [harness EXCEPT !.pc = "awaitProvider", !.calls = @ + 1]
    /\ UNCHANGED <<options, client, translator, supportedLanguages,
                   supportedLanguagesPromise, call, network, history>>

\* lines 104 and 128-136: there is no provider
WithoutProvider ==
    /\ harness.op = "buildQueryVariants"
    /\ harness.pc = "start"
    /\ ~translator
    /\ harness' = [harness EXCEPT !.pc = "done",
                                  !.variants = buildQueryVariants(harness.text, {})]
    /\ UNCHANGED <<options, client, translator, supportedLanguages,
                   supportedLanguagesPromise, call, network, history>>

\* lines 114-136: the provider has returned its pairs or thrown
ProviderAnswered(provided) ==
    /\ harness.op = "buildQueryVariants"
    /\ harness.pc = "awaitProvider"
    /\ harness' = [harness EXCEPT !.pc = "done",
                                  !.provided = provided,
                                  !.variants = buildQueryVariants(harness.text, provided)]
    /\ UNCHANGED <<options, client, translator, supportedLanguages,
                   supportedLanguagesPromise, call, network, history>>

NextBuild ==
    \/ CallProvider
    \/ WithoutProvider
    \/ \E provided \in BuildAnswers(Trim(harness.text)) : ProviderAnswered(provided)

SpecBuild == InitBuild /\ [][NextBuild]_vars

Built == harness.op = "buildQueryVariants" /\ harness.pc = "done"

\* C19: for a text that is not blank _buildQueryVariants returns a list that
\* is not empty and in which every query is a trimmed string that is not empty
C19_VariantQueriesNonEmpty ==
    (Built /\ Trim(harness.text) # <<>>) =>
        /\ Len(harness.variants) > 0
        /\ \A i \in 1..Len(harness.variants) :
               /\ harness.variants[i].query # <<>>
               /\ Trim(harness.variants[i].query) = harness.variants[i].query

\* the pairs the provider returned, none when it is absent or threw
ProvidedPairs == IF harness.provided = {} THEN <<>> ELSE ValueOf(harness.provided)

\* the pair at position i spans the whole trimmed text
SpansText(i) == Len(Trim(ProvidedPairs[i].originalText)) = Len(Trim(harness.text))

\* C20: _buildQueryVariants calls the provider at most once and returns one
\* variant: the trimmed texts of the first provider pair that spans the whole
\* trimmed input, else (no such pair, no provider, a provider that throws) the
\* trimmed input as both query and source text
C20_SingleFullLengthVariant ==
    Built =>
        /\ harness.calls <= 1
        /\ Len(harness.variants) = 1
        /\ IF \E i \in 1..Len(ProvidedPairs) : SpansText(i)
           THEN \E i \in 1..Len(ProvidedPairs) :
                    /\ SpansText(i)
                    /\ \A j \in 1..(i - 1) : ~SpansText(j)
                    /\ harness.variants[1].query = Trim(ProvidedPairs[i].deinflectedText)
                    /\ harness.variants[1].sourceText = Trim(ProvidedPairs[i].originalText)
           ELSE /\ harness.variants[1].query = Trim(harness.text)
                /\ harness.variants[1].sourceText = Trim(harness.text)

\* the provider returned two pairs that span the text and deinflect it
\* differently, and the variant is the first of them
C20_Witness ==
    /\ Built
    /\ harness.calls = 1
    /\ Len(ProvidedPairs) = 2
    /\ SpansText(1) /\ SpansText(2)
    /\ Trim(ProvidedPairs[1].deinflectedText) # Trim(ProvidedPairs[2].deinflectedText)
    /\ harness.variants[1].query = Trim(ProvidedPairs[1].deinflectedText)

----------------------------------------------------------------------------
(* _resolveLanguages and normalizeSottakuLanguages applied to every text,  *)
(* language mode, preferred list, default language and supported list      *)

MaxPreferred == 2

\* language codes as the options and the service may carry them: supported
\* by default, unsupported by default, padded
Codes == {"ja", "ko", "en", " ko "}

\* the supported lists: none usable, the static default, lists from the
\* service that start with another language or repeat a padded code
SupportedLists ==
    {<<>>, <<" ">>, <<"ja", "ko">>, <<"ko", "en">>, <<" ko ", "ko">>, <<"en">>}

LanguageModes == {"auto", "mixed", "ja", "ko"}

\* text without a script signal, Japanese, Hangul before and after Japanese
LanguageTexts ==
    {<<"a">>, <<JapaneseChar, "a">>, <<HangulChar, JapaneseChar>>,
     <<JapaneseChar, HangulChar>>}

InitLanguages ==
    /\ Constructed
    /\ translator = TRUE
    /\ \E text \in LanguageTexts, mode \in LanguageModes,
          preferred \in Strings(Codes, MaxPreferred),
          defaultLanguage \in {"ja", "ko", "en", ""},
          supported \in SupportedLists :
           harness = [op |-> "languages", pc |-> "start", text |-> text,
                      sottaku |-> [languageMode |-> mode,
                                   preferredLanguages |-> preferred],
                      defaultLanguage |-> defaultLanguage,
                      supported |-> supported,
                      languages |-> <<>>]

\* this._resolveLanguages(text, sottaku, general.language) with the cached
\* list `supported`
ApplyResolveLanguages ==
    /\ harness.op = "languages"
    /\ harness.pc = "start"
    \* this._supportedLanguages only ever holds a list that
    \* _normalizeSupportedLanguagesResponse has trimmed and de-duplicated
    /\ harness.supported = TrimDedup(harness.supported, <<>>)
    /\ harness' = [harness EXCEPT
                      !.pc = "resolved",
                      !.languages = resolveLanguages(harness.text, harness.sottaku,
                                                     harness.defaultLanguage,
                                                     harness.supported)]
    /\ Untouched

\* normalizeSottakuLanguages(preferred, defaultLanguage, supported)
ApplyNormalizeLanguages ==
    /\ harness.op = "languages"
    /\ harness.pc = "start"
    /\ harness' = [harness EXCEPT
                      !.pc = "normalized",
                      !.languages = normalizeSottakuLanguages(
                                        harness.sottaku.preferredLanguages,
                                        harness.defaultLanguage,
                                        harness.supported)]
    /\ Untouched

NextLanguages ==
    \/ ApplyResolveLanguages
    \/ ApplyNormalizeLanguages

SpecLanguages == InitLanguages /\ [][NextLanguages]_vars

LanguagesResolved == harness.op = "languages" /\ harness.pc = "resolved"

LanguagesNormalized == harness.op = "languages" /\ harness.pc = "normalized"

\* C21: in auto mode a text with a Hangul character resolves to [ko], also
\* when it has Japanese characters, and a text with a Japanese character and
\* no Hangul resolves to [ja]
C21_AutoDetectsScript ==
    (LanguagesResolved /\ harness.sottaku.languageMode = "auto") =>
        /\ (\E i \in 1..Len(harness.text) : harness.text[i] = HangulChar)
               => harness.languages = <<"ko">>
        /\ (/\ \E i \in 1..Len(harness.text) : harness.text[i] = JapaneseChar
            /\ \A i \in 1..Len(harness.text) : harness.text[i] # HangulChar)
               => harness.languages = <<"ja">>

\* a text with a Japanese character ahead of a Hangul one has resolved to [ko]
\* although ko is not in the supported list
C21_Witness ==
    /\ LanguagesResolved
    /\ harness.sottaku.languageMode = "auto"
    /\ harness.text = <<JapaneseChar, HangulChar>>
    /\ harness.supported = <<"en">>
    /\ harness.languages = <<"ko">>


\* the codes of a list as a set, each trimmed, the empty ones left out
TrimmedCodes(list) ==
    {TrimCode(list[i]) : i \in 1..Len(list)} \ {""}

\* the supported set that a list stands for: its trimmed codes, the static
\* default list when it has none
EffectiveSupported(list) ==
    IF TrimmedCodes(list) # {} THEN TrimmedCodes(list)
    ELSE {SOTTAKU_SUPPORTED_LANGUAGES[i] : i \in 1..Len(SOTTAKU_SUPPORTED_LANGUAGES)}

\* the first code of a list that trims to a member of the set, as a set of
\* at most one element
FirstIn(list, set) ==
    LET hits == {i \in 1..Len(list) : TrimCode(list[i]) \in set}
    IN  IF hits = {} THEN {}
        ELSE {TrimCode(list[CHOOSE i \in hits : \A j \in hits : i <= j])}

NoScriptSignal(text) ==
    \A i \in 1..Len(text) : text[i] \notin {JapaneseChar, HangulChar}

\* the first code of the supported list that is in use: the cached list, the
\* static default when the cache is empty
FirstSupported(list) ==
    IF Len(list) > 0 THEN list[1] ELSE SOTTAKU_SUPPORTED_LANGUAGES[1]

\* the language the fallback chain names: the first supported preferred
\* language, else the default language when supported, else `last`
FallbackLanguage(last) ==
    LET supported == EffectiveSupported(harness.supported)
        preferred == FirstIn(harness.sottaku.preferredLanguages, supported)
        default == FirstIn(<<harness.defaultLanguage>>, supported)
    IN  IF preferred # {} THEN ValueOf(preferred)
        ELSE IF default # {} THEN ValueOf(default)
        ELSE last

IsDuplicateFree(list) ==
    \A i, j \in 1..Len(list) : list[i] = list[j] => i = j

\* the members of `set` among the trimmed codes of `list`, in the order of
\* their first occurrence
RECURSIVE FilterTo(_, _, _)
FilterTo(list, set, acc) ==
    IF list = <<>> THEN acc
    ELSE LET code == TrimCode(Head(list))
         IN  FilterTo(Tail(list), set,
                      IF code \in set /\ ~Contains(acc, code)
                      THEN Append(acc, code) ELSE acc)

\* the members of `set` among the codes of `list` as they are written
RECURSIVE FilterRaw(_, _, _)
FilterRaw(list, set, acc) ==
    IF list = <<>> THEN acc
    ELSE FilterRaw(Tail(list), set,
                   IF Head(list) \in set /\ ~Contains(acc, Head(list))
                   THEN Append(acc, Head(list)) ELSE acc)

\* C24: with every code trimmed and the supported set taken as the trimmed
\* codes of the supported list (the static default list when it has none),
\* normalizeSottakuLanguages returns the preferred codes that are supported,
\* in input order without duplicates; when there are none it returns the
\* default language if supported and else the whole supported list; the
\* result is non-empty, duplicate-free and within the supported set
C24_NormalizedPreferred ==
    LanguagesNormalized =>
        LET supported == EffectiveSupported(harness.supported)
            filtered == FilterTo(harness.sottaku.preferredLanguages, supported, <<>>)
            default == TrimCode(harness.defaultLanguage)
        IN  /\ filtered # <<>> => harness.languages = filtered
            /\ (filtered = <<>> /\ default \in supported)
                   => harness.languages = <<default>>
            /\ (filtered = <<>> /\ default \notin supported)
                   => harness.languages =
                          normalizeSupportedLanguagesList(harness.supported)
            /\ Len(harness.languages) > 0
            /\ IsDuplicateFree(harness.languages)
            /\ \A i \in 1..Len(harness.languages) : harness.languages[i] \in supported

\* C24 as stated: the codes and the supported list taken as they are written
C24_NormalizedPreferredAsWritten ==
    LanguagesNormalized =>
        LET supported == {harness.supported[i] : i \in 1..Len(harness.supported)}
            filtered == FilterRaw(harness.sottaku.preferredLanguages, supported, <<>>)
        IN  /\ filtered # <<>> => harness.languages = filtered
            /\ (filtered = <<>> /\ harness.defaultLanguage \in supported)
                   => harness.languages = <<harness.defaultLanguage>>
            /\ (filtered = <<>> /\ harness.defaultLanguage \notin supported)
                   => harness.languages = harness.supported
            /\ Len(harness.languages) > 0
            /\ IsDuplicateFree(harness.languages)
            /\ \A i \in 1..Len(harness.languages) : harness.languages[i] \in supported

\* a padded, repeated preferred code ahead of an unsupported one has been
\* normalized to the single trimmed code
C24_Witness ==
    /\ LanguagesNormalized
    /\ harness.sottaku.preferredLanguages = <<" ko ", "ko">>
    /\ harness.supported = <<"ko", "en">>
    /\ harness.languages = <<"ko">>


----------------------------------------------------------------------------
(* mixed language mode in findTerms                                        *)

\* the normalized preferred list of the profile, by the rule of
\* normalizeSottakuLanguages, against the supported list the integration holds
MixedLanguages ==
    LET supported == EffectiveSupported(supportedLanguages)
        filtered == FilterTo(options.sottaku.preferredLanguages, supported, <<>>)
        default == TrimCode(options.general.language)
    IN  IF filtered # <<>> THEN filtered
        ELSE IF default \in supported THEN <<default>>
        ELSE normalizeSupportedLanguagesList(supportedLanguages)

\* C23: in mixed mode the target languages of a lookup are the normalized
\* preferred list in the user's order, and the scans go through them in that
\* order: a language is scanned only when every language ahead of it in the
\* list has been fetched, and a lookup that returns has fetched them all, in
\* the order of the list
C23_MixedScansInPreferredOrder ==
    (/\ options # NoOptions
     /\ options.sottaku.languageMode = "mixed"
     /\ Scans # {}) =>
        /\ call.languages = MixedLanguages
        /\ \A i, j \in Scans : i < j =>
               Position(history[i].language) <= Position(history[j].language)
        /\ \A i \in Scans :
               Position(history[i].language) <= Len(call.languageResults) + 1
        /\ Returned =>
               /\ Len(call.languageResults) = Len(call.languages)
               /\ \A p \in 1..Len(call.languages) :
                      call.languageResults[p].language = call.languages[p]

\* the preferred list [ko, ja] was scanned ko first and ja after it, and the
\* lookup returned
C23_Witness ==
    /\ Returned
    /\ options.sottaku.languageMode = "mixed"
    /\ options.sottaku.preferredLanguages = <<"ko", "ja">>
    /\ call.languages = <<"ko", "ja">>
    /\ \E i, j \in Scans :
           i < j /\ history[i].language = "ko" /\ history[j].language = "ja"


----------------------------------------------------------------------------
(* _createEntry applied on its own, twice, with a configure() in between   *)

\* the arguments of one call of _createEntry, as _fetchLanguageEntries passes
\* them: the raw result is also the info record
EntryInput(result, language, apiOrigin, query, index, sourceText, matchLengthOverride) ==
    [result |-> result, language |-> language, apiOrigin |-> apiOrigin,
     query |-> query, index |-> index, sourceText |-> sourceText,
     matchLengthOverride |-> matchLengthOverride]

\* raw results with and without a kanji representation and a reading, under
\* queries that differ from both; with every combination of the definition
\* and sentence fields; at low and high rank; with audio files
EntryInputs ==
    {EntryInput(RawResult({1}, kanji, reading, {}, FALSE), "ja", DefaultOrigin,
                query, 0, sourceText, {}) :
         kanji \in {<<>>, <<JapaneseChar, JapaneseChar>>},
         reading \in {<<>>, <<"a">>},
         query \in {<<"b">>, <<JapaneseChar>>},
         sourceText \in {<<JapaneseChar>>, <<JapaneseChar, "b">>}}
    \cup
    {EntryInput([RawResult({1}, <<JapaneseChar>>, <<"a">>, {}, FALSE) EXCEPT
                     !.word_translation = word_translation,
                     !.english_word = english_word,
                     !.cloze_sentence_tokens = cloze_sentence_tokens,
                     !.cloze_sentence = cloze_sentence,
                     !.english_sentence = english_sentence,
                     !.usage_notes = usage_notes],
                "ja", DefaultOrigin, <<JapaneseChar>>, 0, <<JapaneseChar>>, {}) :
         word_translation \in {<<>>, <<"w">>},
         english_word \in {<<>>, <<"e">>},
         cloze_sentence_tokens \in {{}, {<<>>}, {<< <<>> >>}, {<< <<"s">>, <<"t">> >>}},
         cloze_sentence \in {<<>>, <<"c">>},
         english_sentence \in {<<>>, <<"x">>},
         usage_notes \in {<<>>, <<"u">>}}
    \cup
    {EntryInput(RawResult(id, <<JapaneseChar>>, <<>>, match_length, in_flashcards),
                language, DefaultOrigin, <<JapaneseChar>>, index, <<JapaneseChar>>,
                matchLengthOverride) :
         id \in {{}, {1}}, match_length \in {{}, {1}}, in_flashcards \in BOOLEAN,
         language \in {"ja", "ko"}, index \in {0, 1, 99, 100, 101},
         matchLengthOverride \in {{}, {0}}}
    \cup
    {EntryInput([RawResult({1}, <<JapaneseChar>>, <<>>, {}, FALSE) EXCEPT
                     !.word_audio_file = word_audio_file,
                     !.sentence_audio_file = sentence_audio_file],
                "ja", apiOrigin, <<JapaneseChar>>, 0, <<JapaneseChar>>, {}) :
         word_audio_file \in {"", "/media/a.mp3", AbsoluteAudioUrl},
         sentence_audio_file \in {"", "/media/b.mp3"},
         apiOrigin \in {DefaultOrigin, getOrigin(StagingApiBaseUrl)}}

InitEntries ==
    /\ Constructed
    /\ translator = TRUE
    /\ \E input \in EntryInputs :
           harness = [op |-> "entry", pc |-> "start", input |-> input,
                      entry |-> {}, again |-> {}]

\* this._createEntry(result, result, language, apiOrigin, normalizedQuery, i,
\* normalizedSource, originalTextLength)
CreateEntryOf(input) ==
    createEntry(input.result, input.result, input.language, input.apiOrigin,
                input.query, input.index, input.sourceText,
                input.matchLengthOverride)

ApplyCreateEntry ==
    /\ harness.op = "entry"
    /\ harness.pc = "start"
    /\ harness' = [harness EXCEPT !.pc = "created",
                                  !.entry = {CreateEntryOf(harness.input)}]
    /\ Untouched

\* configure() between the two calls: signed out, signed in, signed in
\* against another gateway
ConfigureBetweenEntries(o) ==
    /\ harness.op = "entry"
    /\ harness.pc = "created"
    /\ options = NoOptions
    /\ Configure(o)

\* the languages request of configure() is answered between the two calls
LanguagesBetweenEntries(response) ==
    /\ harness.op = "entry"
    /\ harness.pc = "created"
    /\ SupportedLanguagesResolve(response)

\* the same call of _createEntry once more
ApplyCreateEntryAgain ==
    /\ harness.op = "entry"
    /\ harness.pc = "created"
    /\ harness' = [harness EXCEPT !.pc = "repeated",
                                  !.again = {CreateEntryOf(harness.input)}]
    /\ Untouched

NextEntries ==
    \/ ApplyCreateEntry
    \/ \E o \in ReconfigureOptions : ConfigureBetweenEntries(o)
    \/ \E response \in ReconfigureResponses : LanguagesBetweenEntries(response)
    \/ ApplyCreateEntryAgain

SpecEntries == InitEntries /\ [][NextEntries]_vars

EntryCreated == harness.op = "entry" /\ harness.pc # "start"

TheEntry == ValueOf(harness.entry)


\* C25: the headword term is the kanji representation when present, else the
\* reading when present, else the query; the headword reading is the raw
\* reading when present and else the term
C25_HeadwordTermAndReading ==
    EntryCreated =>
        LET raw == harness.input.result
            term == IF raw.kanji_representation # <<>> THEN raw.kanji_representation
                    ELSE IF raw.reading # <<>> THEN raw.reading
                    ELSE harness.input.query
        IN  /\ TheEntry.headwords[1].term = term
            /\ TheEntry.headwords[1].reading =
                   IF raw.reading # <<>> THEN raw.reading ELSE term

\* the fields of a raw result the glossary is made of, in the order of the
\* glossary: the text of each line and whether the field is present
GlossaryFields(raw) ==
    LET translation == IF raw.word_translation # <<>> THEN raw.word_translation
                       ELSE raw.english_word
        sentence == IF raw.cloze_sentence_tokens \notin {{}, {<<>>}}
                    THEN Join(ValueOf(raw.cloze_sentence_tokens))
                    ELSE raw.cloze_sentence
    IN  <<[present |-> translation # <<>>, line |-> translation],
          [present |-> sentence # <<>>, line |-> ContextPrefix \o sentence],
          [present |-> raw.english_sentence # <<>>,
           line |-> TranslationPrefix \o raw.english_sentence],
          [present |-> raw.usage_notes # <<>>,
           line |-> UsagePrefix \o raw.usage_notes]>>

\* C26: the glossary has one line per present field, the translation, the
\* context sentence, the sentence translation and the usage notes in this
\* order and nothing else; when no field is present it is the placeholder line
\* alone, and only then does it hold the placeholder; it is never empty
C26_GlossaryLinesInOrder ==
    EntryCreated =>
        LET fields == GlossaryFields(harness.input.result)
            glossary == TheEntry.definitions[1].entries
            place(k) == Cardinality({j \in 1..k : fields[j].present})
            present == place(4)
        IN  /\ Len(glossary) > 0
            /\ present > 0 =>
                   /\ Len(glossary) = present
                   /\ \A k \in 1..4 : fields[k].present =>
                          glossary[place(k)] = fields[k].line
            /\ present = 0 => glossary = <<NoDefinitionLine>>
            /\ (\E i \in 1..Len(glossary) : glossary[i] = NoDefinitionLine)
                   <=> present = 0

\* a result with an english_word, joined sentence tokens and usage notes but
\* no sentence translation has a glossary of these three lines
C26_Witness ==
    /\ EntryCreated
    /\ harness.input.result.word_translation = <<>>
    /\ harness.input.result.cloze_sentence = <<"c">>
    /\ TheEntry.definitions[1].entries =
           <<<<"e">>, ContextPrefix \o <<"s", "t">>, UsagePrefix \o <<"u">>>>

----------------------------------------------------------------------------
(* the scores of the entries findTerms returns                             *)

\* C27: the entry built from the result at rank i of a language's scan has
\* score max(0, 100 - i) and frequencyOrder i, and the list findTerms returns
\* is in order of non-increasing score
C27_ScoreFollowsRank ==
    /\ \A l \in 1..Len(call.languageResults) :
           \A k \in 1..Len(call.languageResults[l].entries) :
               LET entry == call.languageResults[l].entries[k]
                   i == k - 1
               IN  /\ entry.score = (IF 100 - i > 0 THEN 100 - i ELSE 0)
                   /\ entry.frequencyOrder = i
                   /\ entry.definitions[1].score = entry.score
                   /\ entry.definitions[1].frequencyOrder = i
    /\ Returned =>
           \A i, j \in 1..Len(TheResult.dictionaryEntries) : i < j =>
               TheResult.dictionaryEntries[i].score >= TheResult.dictionaryEntries[j].score

\* two languages produced two entries each and the lookup returned three of
\* them, the first of either language ahead of the second of the first
C27_Witness ==
    /\ Returned
    /\ Len(call.languageResults) = 2
    /\ Len(call.languageResults[1].entries) = 2
    /\ Len(call.languageResults[2].entries) = 2
    /\ Len(TheResult.dictionaryEntries) = 3
    /\ TheResult.dictionaryEntries[1].score = 100
    /\ TheResult.dictionaryEntries[2].score = 100
    /\ TheResult.dictionaryEntries[3].score = 99


----------------------------------------------------------------------------
(* the raw records of a scan across the membership check                   *)

\* the records `after` are the records `before` but for in_flashcards, which
\* has changed only to TRUE and only where the id is in `set`, and is TRUE
\* wherever the id is in `set`
StampedOnly(before, after, set) ==
    /\ Len(after) = Len(before)
    /\ \A k \in 1..Len(before) :
           LET member == before[k].id # {} /\ ValueOf(before[k].id) \in set
           IN  /\ DOMAIN after[k] = DOMAIN before[k]
               /\ \A field \in DOMAIN before[k] \ {"in_flashcards"} :
                      after[k][field] = before[k][field]
               /\ after[k].in_flashcards # before[k].in_flashcards =>
                      member /\ after[k].in_flashcards = TRUE
               /\ member => after[k].in_flashcards = TRUE

\* C29: the membership check changes nothing in the raw records of the scan
\* but in_flashcards, which it sets to true on the records whose id is in the
\* returned membership set, and on nothing else when the request fails
C29_OnlyInFlashcardsStamped ==
    [][/\ \A request \in network : \A data \in MembershipData(request) :
              MembershipResolve(data) =>
                  StampedOnly(call.limitedResults, call'.limitedResults,
                              FlashcardMembershipReturn(data))
       /\ MembershipReject =>
              StampedOnly(call.limitedResults, call'.limitedResults, {})]_vars

\* of two records with ids, one flagged by the service already, the
\* membership check has stamped the other one only
C29_Witness ==
    /\ Len(call.limitedResults) = 2
    /\ call.limitedResults[1].id = {1}
    /\ call.limitedResults[1].in_flashcards
    /\ call.limitedResults[2].id = {2}
    /\ call.limitedResults[2].in_flashcards
    /\ Len(history) > 0
    /\ history[Len(history)].kind = "membership"
    /\ history[Len(history)].ids = <<1, 2>>
    /\ Len(call.languageResults) > 0
    /\ Len(call.languageResults[Len(call.languageResults)].entries) = 2


----------------------------------------------------------------------------
(* the originalTextLength findTerms reports                                *)

\* C30: the reported originalTextLength is the first nonzero of: the largest
\* length a language result reports, the largest known match length of the
\* returned entries, the largest headword-term length of the returned
\* entries, the length of the trimmed query; a headword-term length counts
\* only when no returned entry has a known match length
C30_LengthByStrictPriority ==
    (Returned /\ call.query # <<>>) =>
        LET entries == TheResult.dictionaryEntries
            reported == MaxOf({0} \cup
                {ValueOf(call.languageResults[i].originalTextLength) :
                    i \in {j \in 1..Len(call.languageResults) :
                              call.languageResults[j].originalTextLength # {}}})
            matched == MaxOf({0} \cup
                {ValueOf(entries[i].sottaku.matchLength) :
                    i \in {j \in 1..Len(entries) : entries[j].sottaku.matchLength # {}}})
            headword == MaxOf({0} \cup
                {Len(entries[i].headwords[1].term) : i \in 1..Len(entries)})
        IN  TheResult.originalTextLength =
                IF reported > 0 THEN reported
                ELSE IF matched > 0 THEN matched
                ELSE IF headword > 0 THEN headword
                ELSE Len(call.query)


----------------------------------------------------------------------------
(* SottakuClient._request and SottakuClient.scan applied to every response *)
(* of the gateway                                                          *)

\* a JSON object of the gateway: success absent, true or false; an error and
\* a message text or none; a data field or none; the fields of a scan answer
\* when the body carries them itself
JsonBodies(payloads) ==
    [success : {{}, {TRUE}, {FALSE}},
     error : {<<>>, <<"e">>},
     message : {<<>>, <<"m">>},
     data : {{}} \cup {{d} : d \in payloads},
     results : {{}}, original_text_length : {{}}]
    \cup
    [success : {{}}, error : {<<>>}, message : {<<>>}, data : {{}},
     results : {{}, {<<>>}}, original_text_length : {{}, {ServerLength}}]

\* the scan answers inside a data field
ScanPayloads ==
    [results : {{}, {<<>>}, {<<RawResult({1}, <<JapaneseChar>>, <<>>, {}, FALSE)>>}},
     original_text_length : {{}, {0}, {ServerLength}}]

\* what fetch resolves with: a success or failure status, a status text or
\* none (HTTP/2), a body that decodes to an object, to null, or not at all
Responses ==
    [ok : BOOLEAN, statusText : {<<>>, <<"s">>},
     decodes : {TRUE}, json : {{}} \cup {{b} : b \in JsonBodies(ScanPayloads)}]
    \cup
    [ok : BOOLEAN, statusText : {<<>>, <<"s">>}, decodes : {FALSE}, json : {{}}]

ScanTexts == {<<"a">>, <<JapaneseChar, JapaneseChar>>}

InitRequest ==
    /\ Constructed
    /\ translator = TRUE
    /\ \E response \in Responses, text \in ScanTexts :
           harness = [op |-> "request", pc |-> "start", response |-> response,
                      text |-> text, result |-> {}]

\* this._request(path, options) settles
ApplyRequest ==
    /\ harness.op = "request"
    /\ harness.pc = "start"
    /\ harness' = [harness EXCEPT !.pc = "requested",
                                  !.result = {gatewayRequest(harness.response)}]
    /\ Untouched

\* client.scan(text, language, maxResults) settles: it fails as _request
\* fails, else returns the shape built from what _request returned
ApplyScan ==
    /\ harness.op = "request"
    /\ harness.pc = "start"
    /\ LET requested == gatewayRequest(harness.response)
           data == IF requested.value # {} THEN ValueOf(requested.value)
                   ELSE [results |-> {}, original_text_length |-> {}]
       IN  harness' = [harness EXCEPT
                          !.pc = "scanned",
                          !.result = IF requested.outcome = "threw" THEN {requested}
                                     ELSE {[outcome |-> "returned",
                                            value |-> ScanReturn(data, harness.text)]}]
    /\ Untouched

NextRequest ==
    \/ ApplyRequest
    \/ ApplyScan

SpecRequest == InitRequest /\ [][NextRequest]_vars


Requested == harness.op = "request" /\ harness.pc = "requested"

RequestResult == ValueOf(harness.result)

\* the body says success === false
SaysFailure(response) ==
    response.decodes /\ response.json # {} /\ ValueOf(response.json).success = {FALSE}

\* the message the body and the status line offer: the error field, else the
\* message field, else the status text, else `last`
OfferedMessage(response, last) ==
    LET body == ValueOf(response.json)
    IN  IF response.decodes /\ response.json # {} /\ body.error # <<>> THEN body.error
        ELSE IF response.decodes /\ response.json # {} /\ body.message # <<>>
        THEN body.message
        ELSE IF response.statusText # <<>> THEN response.statusText
        ELSE last

\* C31: _request throws exactly when the status is not a success or the
\* decoded body has success false; the message of the error is the body's
\* error field, else its message field, else the status text, else 'Request
\* failed' when the status text is empty as well; a body that does not decode
\* counts as no body and does not make a success status fail
C31_RequestErrorPolicy ==
    Requested =>
        /\ RequestResult.outcome = "threw"
               <=> (~harness.response.ok \/ SaysFailure(harness.response))
        /\ RequestResult.outcome = "threw" =>
               RequestResult.error.message =
                   OfferedMessage(harness.response, RequestFailedMessage)
        /\ (harness.response.ok /\ ~harness.response.decodes) =>
               RequestResult = [outcome |-> "returned", value |-> {}]

\* C31 as stated: the last fallback of the message is the status text
C31_RequestErrorPolicyAsStated ==
    Requested =>
        /\ RequestResult.outcome = "threw"
               <=> (~harness.response.ok \/ SaysFailure(harness.response))
        /\ RequestResult.outcome = "threw" =>
               RequestResult.error.message =
                   OfferedMessage(harness.response, harness.response.statusText)
        /\ (harness.response.ok /\ ~harness.response.decodes) =>
               RequestResult = [outcome |-> "returned", value |-> {}]

\* a success status whose body says success false with a message and no
\* error field has thrown that message
C31_Witness ==
    /\ Requested
    /\ harness.response.ok
    /\ SaysFailure(harness.response)
    /\ ValueOf(harness.response.json).error = <<>>
    /\ RequestResult.outcome = "threw"
    /\ RequestResult.error.message = <<"m">>

Scanned == harness.op = "request" /\ harness.pc = "scanned"

\* what the server sent as the scan answer: the data field of the body, or
\* the body itself without one; nothing when there is no body
SentScan(response) ==
    LET body == ValueOf(response.json)
    IN  IF ~response.decodes \/ response.json = {}
        THEN [results |-> {}, original_text_length |-> {}]
        ELSE IF body.data # {} THEN ValueOf(body.data)
        ELSE [results |-> body.results,
              original_text_length |-> body.original_text_length]

\* C32: when scan returns, results is an array, the server's when it sent one
\* and empty otherwise, and originalTextLength is a number, the server's
\* original_text_length when it sent one and the length of the text otherwise
C32_ScanReturnShape ==
    (Scanned /\ RequestResult.outcome = "returned") =>
        LET sent == SentScan(harness.response)
            value == RequestResult.value
        IN  /\ DOMAIN value = {"results", "originalTextLength"}
            /\ DOMAIN value.results = 1..Len(value.results)
            /\ value.results = IF sent.results # {} THEN ValueOf(sent.results) ELSE <<>>
            /\ value.originalTextLength \in Nat
            /\ value.originalTextLength =
                   IF sent.original_text_length # {}
                   THEN ValueOf(sent.original_text_length)
                   ELSE Len(harness.text)

\* a success status with a body that does not decode gave no results and the
\* length of the two-character text
C32_Witness ==
    /\ Scanned
    /\ harness.response.ok
    /\ ~harness.response.decodes
    /\ harness.text = <<JapaneseChar, JapaneseChar>>
    /\ RequestResult = [outcome |-> "returned",
                        value |-> [results |-> <<>>, originalTextLength |-> 2]]


----------------------------------------------------------------------------
(* the requests of _fetchLanguageEntriesWithVariants                       *)

IsScan(r) == r.kind = "scan"

NotEmpty(text) == text # <<>>

\* how many variants of the list the loop has reached
VariantsStarted ==
    IF Returned THEN Len(call.variantResults)
    ELSE IF Threw THEN Len(call.variantResults) + 1
    ELSE call.variantIndex

\* C33: the scans are issued in the order of the variants, one for each
\* variant reached whose trimmed query is not empty and none for a variant
\* with an empty query; once the fetch of a variant has yielded an entry the
\* call is over, and the requests of that variant, its scan and at most the
\* membership request after it, are the last ones issued
C33_ScansInVariantOrder ==
    LET scans == SelectSeq(history, IsScan)
        queries == SelectSeq([i \in 1..VariantsStarted |-> Trim(call.variants[i].query)],
                             NotEmpty)
    IN  /\ Len(scans) = Len(queries)
        /\ \A i \in 1..Len(scans) : scans[i].text = queries[i]
        /\ \A i \in 1..Len(history) :
               history[i].kind = "membership" => (i > 1 /\ history[i - 1].kind = "scan")
        /\ Productive # {} =>
               /\ Returned
               /\ network = {}
               /\ Productive = {VariantsStarted}
               /\ Len(scans) > 0
               /\ scans[Len(scans)].text = Trim(call.variants[VariantsStarted].query)
               /\ \/ history[Len(history)].kind = "scan"
                  \/ /\ history[Len(history)].kind = "membership"
                     /\ history[Len(history) - 1] = scans[Len(scans)]

\* of two variants with a query the first was scanned and yielded an entry
\* after its membership request, and the second was never scanned
C33_Witness ==
    /\ Returned
    /\ Len(call.variants) = 2
    /\ Trim(call.variants[1].query) = <<JapaneseChar>>
    /\ Trim(call.variants[2].query) = <<JapaneseChar, JapaneseChar>>
    /\ Productive = {1}
    /\ Len(history) = 2
    /\ history[1].kind = "scan"
    /\ history[2].kind = "membership"


----------------------------------------------------------------------------
(* the supported-language list across a change of the token                *)

\* C34: a list fetched under one token is never used for a lookup invoked
\* under another: when a findTerms resumes from waiting for the list, and the
\* request that settles has delivered a list, that request was issued with
\* the token the lookup was invoked under
C34_ListFetchedUnderLookupToken ==
    [][(/\ call.pc = "awaitLanguages"
        /\ call'.pc # "awaitLanguages"
        /\ call.invoked.authToken # ""
        /\ supportedLanguages' # SOTTAKU_SUPPORTED_LANGUAGES)
          => \A r \in LanguagesRequests(network) \ LanguagesRequests(network') :
                 r.token = call.invoked.authToken]_vars


\* C40: at most one supported-languages request is in flight, the promise is
\* null exactly when none is, no step issues another while one is pending,
\* and a findTerms that gets past its checks while one is pending waits for it
C40_OneLanguagesRequestInFlight ==
    [][/\ Cardinality(LanguagesRequests(network')) <= 1
       /\ supportedLanguagesPromise' = "null" <=> LanguagesRequests(network') = {}
       /\ supportedLanguagesPromise = "pending" =>
              LanguagesRequests(network') \subseteq LanguagesRequests(network)
       /\ (/\ supportedLanguagesPromise = "pending"
           /\ client.authToken # ""
           /\ call.pc \in {"idle", "done"}
           /\ call'.pc \notin {"idle", "done"})
              => call'.pc = "awaitLanguages"]_vars

\* a findTerms waits for the request that configure() issued, the only one in
\* flight, after a second configure() with another token
C40_Witness ==
    /\ call.pc = "awaitLanguages"
    /\ supportedLanguagesPromise = "pending"
    /\ client.authToken = "tokB"
    /\ LanguagesRequests(network) =
           {r \in network : r.kind = "languages" /\ r.by = "configure" /\ r.token = "tokA"}
    /\ Cardinality(LanguagesRequests(network)) = 1


----------------------------------------------------------------------------
(* the languages findTerms scans and the supported-language list           *)

C36_LengthWithinText ==
    (Returned /\ call.query # <<>>) =>
        TheResult.originalTextLength <= Len(call.text)


\* ------------------------------------------------------------------------
\* SottakuController (settings page): the handlers that take this._busy and
\* the skip-auto-sync flag.  The harness record holds the controller's
\* fields, the handler activations suspended at an await, and what outlives
\* the page: the profile's sottaku.authToken (settings), the
\* sottakuSkipAutoSync key of chrome.storage.local (stored) and the api_token
\* cookie of the Sottaku origin (cookie).  signedOut and later are history
\* fields: a sign-out has completed and no explicit auth update came after
\* it; prepare() started after such a sign-out.
\* ------------------------------------------------------------------------

MaxHandlers == 2

HandlerSlots == 1..MaxHandlers

ControllerTokens == {"", "tokA"}

NoHandler == [kind |-> "none", pc |-> "free", silent |-> FALSE, token |-> ""]

\* constructor: _busy = false, _skipAutoSync = false, nothing in flight
SottakuController(authToken, stored, cookie, signedOut) ==
    [op |-> "controller", busy |-> FALSE, skipAutoSync |-> FALSE,
     prepare |-> "unprepared",
     handlers |-> [s \in HandlerSlots |-> NoHandler],
     authToken |-> authToken, stored |-> stored, cookie |-> cookie,
     signedOut |-> signedOut, later |-> FALSE,
     last |-> [handler |-> "none", outcome |-> "constructed"]]

InFlight(h) == {s \in HandlerSlots : h.handlers[s].kind # "none"}

HasFree(h) == InFlight(h) # HandlerSlots

FreeSlot(h) == CHOOSE s \in HandlerSlots \ InFlight(h) :
                   \A t \in HandlerSlots \ InFlight(h) : s <= t

\* the handler returned at its first check: nothing but the record of it
HandlerRejected(h, kind) == [h EXCEPT !.last = [handler |-> kind, outcome |-> "rejected"]]

\* try { this._busy = true; ... await <first request> }
HandlerStarted(h, kind, pc, silent) ==
    [h EXCEPT !.busy = TRUE,
              !.handlers[FreeSlot(h)] =
                  [kind |-> kind, pc |-> pc, silent |-> silent, token |-> ""],
              !.last = [handler |-> kind, outcome |-> "started"]]

\* the handler leaves its try: finally { this._busy = false; }
HandlerFinished(h, s, outcome) ==
    [h EXCEPT !.busy = FALSE,
              !.handlers[s] = NoHandler,
              !.last = [handler |-> h.handlers[s].kind, outcome |-> outcome]]

\* _syncFromBrowserSession without its busy check
syncFromBrowserSessionUnguarded(h, silent) ==
    HandlerStarted(h, "sync", "awaitCookies", silent)

\* _syncFromBrowserSession(silent) up to its first await
syncFromBrowserSession(h, silent) ==
    IF h.busy THEN HandlerRejected(h, "sync")
    ELSE HandlerStarted(h, "sync", "awaitCookies", silent)

InitController ==
    /\ Constructed
    /\ translator = TRUE
    /\ \E authToken \in ControllerTokens, cookie \in ControllerTokens :
           harness = SottakuController(authToken, FALSE, cookie, FALSE)

\* the settings page is opened again: a new controller over the same
\* settings, storage and cookies; the old page's handlers are gone
Construct ==
    /\ harness.op = "controller"
    /\ harness.prepare # "unprepared"
    /\ harness' = SottakuController(harness.authToken, harness.stored,
                                    harness.cookie, harness.signedOut)
    /\ Untouched

\* prepare() up to await this._loadSkipAutoSync(): the listeners are attached
Prepare ==
    /\ harness.op = "controller"
    /\ harness.prepare = "unprepared"
    /\ harness' = [harness EXCEPT !.prepare = "awaitLoad",
                                  !.later = harness.signedOut]
    /\ Untouched

\* _loadSkipAutoSync settles: false on chrome.runtime.lastError, else whether
\* the stored value is true; prepare() goes on to await getOptions()
LoadSkipAutoSyncSettle ==
    /\ harness.op = "controller"
    /\ harness.prepare = "awaitLoad"
    /\ \E error \in BOOLEAN :
           harness' = [harness EXCEPT
                          !.skipAutoSync = IF error THEN FALSE ELSE harness.stored,
                          !.prepare = "awaitOptions"]
    /\ Untouched

\* getOptions() settles: with no stored token and no skip flag prepare()
\* starts the silent browser-session sync
GetOptionsSettle ==
    /\ harness.op = "controller"
    /\ harness.prepare = "awaitOptions"
    /\ HasFree(harness)
    /\ LET ready == [harness EXCEPT !.prepare = "ready"]
       IN  harness' = IF harness.authToken = "" /\ ~harness.skipAutoSync
                      THEN syncFromBrowserSession(ready, TRUE)
                      ELSE ready
    /\ Untouched

\* _onLoginClick up to await loginWithPassword; filled: both fields non-empty
OnLoginClick ==
    /\ harness.op = "controller"
    /\ harness.prepare # "unprepared"
    /\ HasFree(harness)
    /\ \E filled \in BOOLEAN :
           harness' = IF ~filled \/ harness.busy THEN HandlerRejected(harness, "login")
                      ELSE HandlerStarted(harness, "login", "awaitLogin", FALSE)
    /\ Untouched

\* _onSyncCookieClick
OnSyncCookieClick ==
    /\ harness.op = "controller"
    /\ harness.prepare # "unprepared"
    /\ HasFree(harness)
    /\ harness' = syncFromBrowserSession(harness, FALSE)
    /\ Untouched

\* _onLogoutClick up to await modifySettings
OnLogoutClick ==
    /\ harness.op = "controller"
    /\ harness.prepare # "unprepared"
    /\ HasFree(harness)
    /\ harness' = IF harness.busy THEN HandlerRejected(harness, "logout")
                  ELSE HandlerStarted(harness, "logout", "awaitModify", FALSE)
    /\ Untouched

\* loginWithPassword settles: a failure goes to catch and finally, a success
\* enters _applyAuthUpdate with data?.token ?? this._client.authToken
LoginSettle ==
    /\ harness.op = "controller"
    /\ \E s \in InFlight(harness) :
          /\ harness.handlers[s].pc = "awaitLogin"
          /\ \/ harness' = HandlerFinished(harness, s, "failed")
             \/ \E token \in ControllerTokens :
                    harness' = [harness EXCEPT !.handlers[s].pc = "awaitModify",
                                               !.handlers[s].token = token]
    /\ Untouched

\* syncTokenFromCookies settles: it throws, finds no cookie (return inside
\* the try) or returns the cookie's token, and then getProfile is awaited
SyncTokenSettle ==
    /\ harness.op = "controller"
    /\ \E s \in InFlight(harness) :
          /\ harness.handlers[s].pc = "awaitCookies"
          /\ \/ harness' = HandlerFinished(harness, s, "failed")
             \/ harness' = IF harness.cookie = ""
                           THEN HandlerFinished(harness, s, "noToken")
                           ELSE [harness EXCEPT !.handlers[s].pc = "awaitProfile",
                                                !.handlers[s].token = harness.cookie]
    /\ Untouched

\* getProfile settles either way (its failure is caught inside): the sync
\* enters _applyAuthUpdate
ProfileSettle ==
    /\ harness.op = "controller"
    /\ \E s \in InFlight(harness) :
          /\ harness.handlers[s].pc = "awaitProfile"
          /\ harness' = [harness EXCEPT !.handlers[s].pc = "awaitModify"]
    /\ Untouched

\* modifySettings settles.  A failure goes to catch and finally.  A success
\* writes the token (sign-out: '') and runs _setSkipAutoSync up to its await:
\* the field is set and chrome.storage.local.set is called with it
ModifySettingsSettle ==
    /\ harness.op = "controller"
    /\ \E s \in InFlight(harness) :
          /\ harness.handlers[s].pc = "awaitModify"
          /\ \/ harness' = HandlerFinished(harness, s, "failed")
             \/ LET handler == harness.handlers[s]
                    out == handler.kind = "logout"
                IN  harness' = [harness EXCEPT
                        !.authToken = IF out THEN "" ELSE handler.token,
                        !.skipAutoSync = out,
                        !.stored = out,
                        !.signedOut = IF out \/ handler.silent THEN harness.signedOut
                                      ELSE FALSE,
                        !.handlers[s].pc = "awaitStore"]
    /\ Untouched

\* the callback of chrome.storage.local.set: setConfig, _updateStatus, and
\* settingsController.refresh() is awaited
StorageSetSettle ==
    /\ harness.op = "controller"
    /\ \E s \in InFlight(harness) :
          /\ harness.handlers[s].pc = "awaitStore"
          /\ harness' = [harness EXCEPT !.handlers[s].pc = "awaitRefresh"]
    /\ Untouched

\* refresh() settles: the handler completes or fails, and finally runs
RefreshSettle ==
    /\ harness.op = "controller"
    /\ \E s \in InFlight(harness) :
          /\ harness.handlers[s].pc = "awaitRefresh"
          /\ \/ harness' = HandlerFinished(harness, s, "failed")
             \/ harness' = [HandlerFinished(harness, s, "completed") EXCEPT
                               !.signedOut = IF harness.handlers[s].kind = "logout"
                                             THEN TRUE ELSE harness.signedOut]
    /\ Untouched

NextController ==
    \/ Construct
    \/ Prepare
    \/ LoadSkipAutoSyncSettle
    \/ GetOptionsSettle
    \/ OnLoginClick
    \/ OnSyncCookieClick
    \/ OnLogoutClick
    \/ LoginSettle
    \/ SyncTokenSettle
    \/ ProfileSettle
    \/ ModifySettingsSettle
    \/ StorageSetSettle
    \/ RefreshSettle

SpecController == InitController /\ [][NextController]_vars

\* C37: the sign-in, browser-session sync and sign-out handlers exclude each
\* other.  In every step at most one handler is past its busy check, _busy is
\* true exactly while one is; a handler invoked while another is in flight
\* changes nothing (no request is issued, no setting or stored flag is
\* written, the handler in flight is where it was); and whenever a handler
\* that passed its check leaves, by success, failure or the return on a
\* missing cookie, _busy is false.
C37_HandlersMutuallyExclusive ==
    [][harness.op = "controller" =>
         /\ Cardinality(InFlight(harness')) <= 1
         /\ harness'.busy <=> InFlight(harness') # {}
         /\ (/\ harness.busy
             /\ harness'.last.outcome = "rejected"
             /\ harness'.last # harness.last)
                => /\ harness'.handlers = harness.handlers
                   /\ harness'.authToken = harness.authToken
                   /\ harness'.stored = harness.stored
                   /\ harness'.skipAutoSync = harness.skipAutoSync
         /\ (\E s \in InFlight(harness) : s \notin InFlight(harness'))
                => ~harness'.busy]_vars

\* a sign-in is awaiting its request and a sign-out clicked meanwhile has
\* just returned at its busy check
C37_Witness ==
    /\ harness.op = "controller"
    /\ harness.busy
    /\ \E s \in InFlight(harness) : /\ harness.handlers[s].kind = "login"
                                    /\ harness.handlers[s].pc = "awaitLogin"
    /\ harness.last = [handler |-> "logout", outcome |-> "rejected"]

\* C38: once a sign-out has completed the stored skip-auto-sync flag is true,
\* a prepare() that starts afterwards and finds no stored token starts no
\* browser-session sync, and the stored flag turns from true to false only in
\* the step where the settings write of a password sign-in or of an explicit
\* browser-session sync has succeeded.
C38_SignOutSuppressesAutoSync ==
    [][harness.op = "controller" =>
         /\ (/\ harness'.last = [handler |-> "logout", outcome |-> "completed"]
             /\ harness'.last # harness.last)
                => harness'.stored
         /\ (/\ harness.prepare = "awaitOptions" /\ harness'.prepare = "ready"
             /\ harness.later /\ harness.signedOut
             /\ harness.authToken = "")
                => InFlight(harness') = InFlight(harness)
         /\ (harness.stored /\ ~harness'.stored)
                => \E s \in InFlight(harness) :
                       /\ harness.handlers[s].kind \in {"login", "sync"}
                       /\ ~harness.handlers[s].silent
                       /\ harness.handlers[s].pc = "awaitModify"
                       /\ harness'.handlers[s].pc = "awaitStore"]_vars


\* ------------------------------------------------------------------------
\* DisplaySottaku: the action buttons of the dictionary entries on display.
\* The harness record holds this._enabled, the sottaku metadata of the entry
\* on display, and every button created for it: its label (textContent),
\* disabled, whether it is still in the document (attached) and still has
\* its click listener (listening), and how many requests started from it are
\* outstanding (pending); outcome and last are history fields: how the
\* button's last request ended, and the last thing a listener did.  A click reaches a listener only on a button that
\* is in the document and not disabled.
\* ------------------------------------------------------------------------

MaxButtons == 2

MaxPending == 2

DisplayQuestionIds == {0, 7}

SaveLabel == "Save to Sottaku"

\* _createButton(label, disabled), appended to the entry's container
createButton(kind, label, disabled) ==
    [kind |-> kind, label |-> label, disabled |-> disabled,
     attached |-> TRUE, listening |-> TRUE, pending |-> 0,
     outcome |-> "none"]

\* this._eventListeners.removeAllEventListeners()
removeAllEventListeners(buttons) ==
    [b \in DOMAIN buttons |-> [buttons[b] EXCEPT !.listening = FALSE]]

\* _clearButtons / _removeOldButtons: every .sottaku-action leaves the document
clearButtons(buttons) ==
    [b \in DOMAIN buttons |-> [buttons[b] EXCEPT !.attached = FALSE]]

\* _renderButtons for the entry on display
renderButtons(h) ==
    LET unheard == removeAllEventListeners(h.buttons)
        metadata == h.metadata
    IN  IF metadata.questionId = 0 THEN [h EXCEPT !.buttons = unheard]
        ELSE [h EXCEPT !.buttons =
                 Append(clearButtons(unheard),
                        IF metadata.hasDefinition
                        THEN createButton("add", SaveLabel, metadata.inFlashcards)
                        ELSE createButton("request", "Request dictionary entry",
                                          FALSE))]

\* _addFlashcard that leaves the button enabled while it saves
addFlashcardLeavesEnabled(h, b) ==
    IF ~h.enabled \/ h.metadata.questionId = 0
    THEN [h EXCEPT !.last = [button |-> b, outcome |-> "refused"]]
    ELSE [h EXCEPT !.buttons[b].label = "Saving...",
                   !.buttons[b].pending = @ + 1,
                   !.last = [button |-> b, outcome |-> "saving"]]

\* _addFlashcard(entry, button) up to await this._client.addFlashcard
addFlashcard(h, b) ==
    IF ~h.enabled \/ h.metadata.questionId = 0
    THEN [h EXCEPT !.last = [button |-> b, outcome |-> "refused"]]
    ELSE [h EXCEPT !.buttons[b].disabled = TRUE,
                   !.buttons[b].label = "Saving...",
                   !.buttons[b].pending = @ + 1,
                   !.last = [button |-> b, outcome |-> "saving"]]

\* _requestWord(entry, button) up to await this._client.submitWordRequest
requestWord(h, b) ==
    IF ~h.enabled \/ h.metadata.questionId = 0
    THEN [h EXCEPT !.last = [button |-> b, outcome |-> "refused"]]
    ELSE [h EXCEPT !.buttons[b].disabled = TRUE,
                   !.buttons[b].label = "Requesting...",
                   !.buttons[b].pending = @ + 1,
                   !.last = [button |-> b, outcome |-> "requesting"]]

InitDisplay ==
    /\ Constructed
    /\ translator = TRUE
    /\ \E questionId \in DisplayQuestionIds, hasDefinition \in BOOLEAN,
          inFlashcards \in BOOLEAN :
           harness = [op |-> "display", enabled |-> FALSE,
                      metadata |-> [questionId |-> questionId,
                                    hasDefinition |-> hasDefinition,
                                    inFlashcards |-> inFlashcards],
                      buttons |-> <<>>,
                      last |-> [button |-> 0, outcome |-> "none"]]

\* _onOptionsUpdated: enabled is Boolean(sottaku.enabled && sottaku.authToken)
OnOptionsUpdated ==
    /\ harness.op = "display"
    /\ \E enabled \in BOOLEAN :
           harness' = [harness EXCEPT
                          !.enabled = enabled,
                          !.buttons = IF enabled THEN harness.buttons
                                      ELSE clearButtons(harness.buttons)]
    /\ Untouched

\* _onContentClear
OnContentClear ==
    /\ harness.op = "display"
    /\ harness' = [harness EXCEPT
                      !.buttons = clearButtons(removeAllEventListeners(harness.buttons))]
    /\ Untouched

\* _onContentUpdateComplete
OnContentUpdateComplete ==
    /\ harness.op = "display"
    /\ harness.enabled
    /\ Len(harness.buttons) < MaxButtons
    /\ harness' = renderButtons(harness)
    /\ Untouched

\* a click the button's listener receives
Clickable(h, b) ==
    /\ h.buttons[b].attached
    /\ h.buttons[b].listening
    /\ ~h.buttons[b].disabled

\* click on a save button
ClickAdd ==
    /\ harness.op = "display"
    /\ \E b \in DOMAIN harness.buttons :
          /\ harness.buttons[b].kind = "add"
          /\ Clickable(harness, b)
          /\ harness.buttons[b].pending < MaxPending
          /\ harness' = addFlashcard(harness, b)
    /\ Untouched

\* click on a request button
ClickRequest ==
    /\ harness.op = "display"
    /\ \E b \in DOMAIN harness.buttons :
          /\ harness.buttons[b].kind = "request"
          /\ Clickable(harness, b)
          /\ harness.buttons[b].pending < MaxPending
          /\ harness' = requestWord(harness, b)
    /\ Untouched

\* client.addFlashcard settles for a request started from button b
AddFlashcardSettle ==
    /\ harness.op = "display"
    /\ \E b \in DOMAIN harness.buttons, ok \in BOOLEAN :
          /\ harness.buttons[b].kind = "add"
          /\ harness.buttons[b].pending > 0
          /\ harness' =
                IF ok
                THEN [harness EXCEPT !.metadata.inFlashcards = TRUE,
                                     !.buttons[b].label = "Saved",
                                     !.buttons[b].pending = @ - 1,
                                     !.buttons[b].outcome = "saved",
                                     !.last = [button |-> b, outcome |-> "saved"]]
                ELSE [harness EXCEPT !.buttons[b].disabled = FALSE,
                                     !.buttons[b].label = SaveLabel,
                                     !.buttons[b].pending = @ - 1,
                                     !.buttons[b].outcome = "failed",
                                     !.last = [button |-> b, outcome |-> "failed"]]
    /\ Untouched

\* client.submitWordRequest settles for a request started from button b
RequestWordSettle ==
    /\ harness.op = "display"
    /\ \E b \in DOMAIN harness.buttons, ok \in BOOLEAN :
          /\ harness.buttons[b].kind = "request"
          /\ harness.buttons[b].pending > 0
          /\ harness' =
                IF ok
                THEN [harness EXCEPT !.buttons[b].label = "Requested",
                                     !.buttons[b].pending = @ - 1,
                                     !.buttons[b].outcome = "requested",
                                     !.last = [button |-> b, outcome |-> "requested"]]
                ELSE [harness EXCEPT !.buttons[b].disabled = FALSE,
                                     !.buttons[b].label = "Request translation",
                                     !.buttons[b].pending = @ - 1,
                                     !.buttons[b].outcome = "failed",
                                     !.last = [button |-> b, outcome |-> "failed"]]
    /\ Untouched

NextDisplay ==
    \/ OnOptionsUpdated
    \/ OnContentClear
    \/ OnContentUpdateComplete
    \/ ClickAdd
    \/ ClickRequest
    \/ AddFlashcardSettle
    \/ RequestWordSettle

SpecDisplay == InitDisplay /\ [][NextDisplay]_vars

\* the step settles a request started from save button b
AddSettled(b) ==
    /\ b \in DOMAIN harness.buttons
    /\ harness.buttons[b].kind = "add"
    /\ harness'.buttons[b].pending < harness.buttons[b].pending

\* C39: saving to flashcards.  The entry's inFlashcards changes only in a
\* step where an add-flashcard request succeeded, it becomes true there, and
\* that button is left disabled; when the request fails inFlashcards is what
\* it was and the button is enabled again under the label it was created
\* with; while a request of a save button is outstanding the button is
\* disabled, and no save button has two requests outstanding.
C39_SaveButtonFollowsRequest ==
    [][harness.op = "display" =>
         /\ harness'.metadata.inFlashcards # harness.metadata.inFlashcards
               => \E b \in DOMAIN harness.buttons :
                      /\ AddSettled(b)
                      /\ harness'.last = [button |-> b, outcome |-> "saved"]
         /\ \A b \in DOMAIN harness.buttons :
               /\ (AddSettled(b) /\ harness'.last.outcome = "saved")
                     => /\ harness'.metadata.inFlashcards
                        /\ harness'.buttons[b].disabled
               /\ (AddSettled(b) /\ harness'.last.outcome = "failed")
                     => /\ harness'.metadata.inFlashcards
                               = harness.metadata.inFlashcards
                        /\ ~harness'.buttons[b].disabled
                        /\ harness'.buttons[b].label = SaveLabel
         /\ \A b \in DOMAIN harness'.buttons :
               harness'.buttons[b].kind = "add"
                  => /\ harness'.buttons[b].pending <= 1
                     /\ harness'.buttons[b].pending = 1
                            => harness'.buttons[b].disabled]_vars

\* the first save button's request failed and left it enabled as created;
\* the button rendered after it was clicked, its request succeeded, and it is
\* left disabled with the entry saved
C39_Witness ==
    /\ harness.op = "display"
    /\ Len(harness.buttons) = 2
    /\ harness.buttons[1].kind = "add"
    /\ harness.buttons[1].outcome = "failed"
    /\ ~harness.buttons[1].disabled
    /\ harness.buttons[1].label = SaveLabel
    /\ harness.buttons[2].kind = "add"
    /\ harness.buttons[2].disabled
    /\ harness.buttons[2].label = "Saved"
    /\ harness.buttons[2].pending = 0
    /\ harness.last = [button |-> 2, outcome |-> "saved"]
    /\ harness.metadata.inFlashcards

====
